---------------------------- MODULE Spec2Model ----------------------------
(***************************************************************************)
(* HF-Daily-Papers-Feeds (src/api/index.go): the four-stage cache-aside    *)
(* pipeline Feed -> Summary -> Conversation -> Podcast, the retry loop of  *)
(* the conversation stage and the full refresh (updateAllCaches).          *)
(*                                                                         *)
(* Every outbound interaction (one Redis command, one HTTP call to the     *)
(* content source, the text-generation service or the speech-synthesis     *)
(* service, one backoff wait) is one action; the local computation that    *)
(* follows it up to the next interaction is part of the same action.       *)
(*                                                                         *)
(* Not modelled: the self link (requestURL) and the timestamps that        *)
(* generateRSS / generateSummaryRSS put into a document, the CORS headers, *)
(* the health and not-found routes, and the expiry of a key after          *)
(* cacheDuration (a run of the model is shorter than the TTL).             *)
(***************************************************************************)
EXTENDS Naturals, Sequences, FiniteSets

(***************************************************************************)
(* Bounds of the model and constants of the program.                       *)
(***************************************************************************)
\* the content source lists between 1 and MaxListed papers
MaxListed == 2
\* const maxPapers
maxPapers == 50
\* extractConversation(ctx, text, 3)
maxRetries == 3

\* the request handlers; the specification Spec runs one request at a time
Procs == {"r1", "r2"}
\* the handlers that take requests under Spec
SeqProcs == {"r1"}

Keys == {"cacheKey", "summaryCacheKey", "conversationCacheKey", "podcastCacheKey"}
Kinds == {"feed", "summary", "conversation", "podcast", "update-cache"}

Nil == [t |-> "nil"]

(***************************************************************************)
(* The environment of the process: which variables are set.  It is fixed   *)
(* for the life of the process (os.Getenv).                                *)
(***************************************************************************)
Envs ==
  { [KV_URL |-> TRUE,  HF_API_KEY |-> TRUE,  DEEPINFRA_API_KEY |-> TRUE,  UPDATE_KEY |-> TRUE],
    [KV_URL |-> TRUE,  HF_API_KEY |-> FALSE, DEEPINFRA_API_KEY |-> TRUE,  UPDATE_KEY |-> TRUE],
    [KV_URL |-> TRUE,  HF_API_KEY |-> TRUE,  DEEPINFRA_API_KEY |-> FALSE, UPDATE_KEY |-> TRUE],
    [KV_URL |-> FALSE, HF_API_KEY |-> TRUE,  DEEPINFRA_API_KEY |-> TRUE,  UPDATE_KEY |-> FALSE] }

(***************************************************************************)
(* Feed stage: pure parts.                                                 *)
(***************************************************************************)
\* type Paper; a paper is identified by its position in the listing
Paper(i) == [Title |-> i, URL |-> i]

\* what the content source can list: n papers, n in 1..MaxListed
Listings == { [i \in 1..n |-> Paper(i)] : n \in 1..MaxListed }

\* what the content source can list when the day is long: the lengths around
\* maxPapers too, in the order of the page or in another order
LongListings ==
  LET lengths == (0..MaxListed) \cup ((maxPapers - 1)..(maxPapers + MaxListed)) IN
  { [i \in 1..n |-> Paper(i)] : n \in lengths } \cup
  { [i \in 1..n |-> Paper(n + 1 - i)] : n \in lengths }

\* a faulty variant: no limit
LimitPapers_Unlimited(papers) == papers

\* scrapePapers, "Limit number of papers"
LimitPapers(papers) ==
  IF Len(papers) > maxPapers THEN SubSeq(papers, 1, maxPapers) ELSE papers

\* generateRSS: one item per paper, in order
generateRSS(papers) ==
  [t |-> "rss", channel |-> "papers",
   items |-> [i \in 1..Len(papers) |-> [Title |-> papers[i].Title, Link |-> papers[i].URL]]]

\* a faulty variant: the items are written last first
parseRSSToMarkdown_Reversed(rss) ==
  [t |-> "markdown", channel |-> rss.channel,
   headings |-> [i \in 1..Len(rss.items) |-> rss.items[Len(rss.items) + 1 - i].Title]]

\* parseRSSToMarkdown: header, then one heading per item, in order
parseRSSToMarkdown(rss) ==
  [t |-> "markdown", channel |-> rss.channel,
   headings |-> [i \in 1..Len(rss.items) |-> rss.items[i].Title]]

(***************************************************************************)
(* Summary stage: pure parts.                                              *)
(***************************************************************************)
\* a text is a sequence of pieces: the delimiters of a reasoning block, white
\* space, and words
OpenThink == [c |-> "<think>"]
CloseThink == [c |-> "</think>"]
Space == [c |-> " "]
Word == [c |-> "w"]

MaxText == 3

Texts == UNION { [1..n -> {OpenThink, CloseThink, Space, Word}] : n \in 1..MaxText }

\* strings.Contains
Contains(text, piece) == \E i \in DOMAIN text : text[i] = piece

\* strings.TrimSpace
RECURSIVE TrimSpace(_)
TrimSpace(text) ==
  IF text = << >> THEN text
  ELSE IF Head(text) = Space THEN TrimSpace(Tail(text))
  ELSE IF text[Len(text)] = Space THEN TrimSpace(SubSeq(text, 1, Len(text) - 1))
  ELSE text

\* parts[len(parts)-1] of strings.Split(text, sep), for a text that contains sep
LastPart(text, sep) ==
  LET last == CHOOSE i \in DOMAIN text :
                text[i] = sep /\ \A j \in DOMAIN text : text[j] = sep => j <= i
  IN SubSeq(text, last + 1, Len(text))

\* summarizeWithLLM on the content of the answer: with "<think>" in it and more
\* than one part around "</think>", the last part, trimmed
stripThink(text) ==
  IF Contains(text, OpenThink) /\ Contains(text, CloseThink)
  THEN TrimSpace(LastPart(text, CloseThink))
  ELSE text

\* the content the text-generation service answers a summary prompt with: a text
\* about the papers of the prompt
SummaryContents(markdown) == { [about |-> markdown, text |-> <<Word>>] }

\* the same with every text of up to MaxText pieces
ThinkContents(markdown) == { [about |-> markdown, text |-> t] : t \in Texts }

\* generateSummaryRSS: one item whose description is the summary in a <div>
generateSummaryRSS(summary) ==
  [t |-> "rss", channel |-> "summary", items |-> << [Title |-> "summary", div |-> summary] >>]

(***************************************************************************)
(* Conversation stage: pure parts.  A response text is a sequence of       *)
(* tokens: the two braces, and pieces of text without a brace.             *)
(***************************************************************************)
LB == [c |-> "{"]
RB == [c |-> "}"]
\* prose
W == [c |-> "w"]
\* "conversation": [
K == [c |-> "conversation:["]
\* ]
C == [c |-> "]"]
\* "speaker": s, "text": x   (the inside of one entry object, up to the first
\* brace of x when x has braces)
E(s, x) == [c |-> "entry", speaker |-> s, text |-> x]

\* an utterance that ends with an aside in braces, as in: see {this}
HasBraces(x) == "braces" \in DOMAIN x

\* the characters of one entry object: its braces, and those of the utterance
EntryObject(e) ==
  IF HasBraces(e.Text) THEN <<LB, E(e.Speaker, e.Text), LB, W, RB, RB>>
  ELSE <<LB, E(e.Speaker, e.Text), RB>>

\* the entry object that a text starts with: its length, or 0
EntryAt(s) ==
  IF Len(s) >= 3 /\ s[1] = LB /\ s[2].c = "entry"
  THEN IF HasBraces(s[2].text)
       THEN IF Len(s) >= 6 /\ SubSeq(s, 3, 6) = <<LB, W, RB, RB>> THEN 6 ELSE 0
       ELSE IF s[3] = RB THEN 3 ELSE 0
  ELSE 0

IsBrace(tok) == tok = LB \/ tok = RB

\* the inner group \{[^{}]*\} starting at the "{" at j: the index of its "}", or 0
RECURSIVE InnerEnd(_, _)
InnerEnd(s, k) ==
  IF k > Len(s) THEN 0
  ELSE IF s[k] = RB THEN k
  ELSE IF s[k] = LB THEN 0
  ELSE InnerEnd(s, k + 1)

\* the rest of \{(?:[^{}]|(?:\{[^{}]*\}))*\} from position j: the index of the closing "}", or 0
RECURSIVE MatchEnd(_, _)
MatchEnd(s, j) ==
  IF j > Len(s) THEN 0
  ELSE IF s[j] = RB THEN j
  ELSE IF s[j] = LB
       THEN LET k == InnerEnd(s, j + 1) IN IF k = 0 THEN 0 ELSE MatchEnd(s, k + 1)
  ELSE MatchEnd(s, j + 1)

\* re.FindString(content): the leftmost match, or the empty string
FindString(s) ==
  LET starts == { i \in 1..Len(s) : s[i] = LB /\ MatchEnd(s, i + 1) # 0 } IN
  IF starts = {} THEN << >>
  ELSE LET i == CHOOSE a \in starts : \A b \in starts : a <= b
       IN SubSeq(s, i, MatchEnd(s, i + 1))

\* the entry objects between "conversation": [ and ]: [ok, entries]
RECURSIVE ParseEntries(_, _)
ParseEntries(s, acc) ==
  IF s = << >> THEN [ok |-> TRUE, entries |-> acc]
  ELSE IF EntryAt(s) > 0
       THEN ParseEntries(SubSeq(s, EntryAt(s) + 1, Len(s)),
                         Append(acc, [Speaker |-> s[2].speaker, Text |-> s[2].text]))
  ELSE [ok |-> FALSE, entries |-> << >>]

\* json.Unmarshal(match, &conversation): [ok, Conversation]; an object without
\* the key "conversation" ({} or one entry object) decodes to no entries
jsonUnmarshal(m) ==
  IF Len(m) >= 2 /\ m[1] = LB /\ m[Len(m)] = RB
  THEN IF Len(m) = 2 \/ EntryAt(m) = Len(m) THEN [ok |-> TRUE, Conversation |-> << >>]
       ELSE IF Len(m) >= 4 /\ m[2] = K /\ m[Len(m) - 1] = C
            THEN LET es == ParseEntries(SubSeq(m, 3, Len(m) - 2), << >>) IN
                 [ok |-> es.ok, Conversation |-> es.entries]
       ELSE [ok |-> FALSE, Conversation |-> << >>]
  ELSE [ok |-> FALSE, Conversation |-> << >>]

\* json.MarshalIndent(conversation): the transport format of section 6
RECURSIVE EntryObjects(_)
EntryObjects(entries) ==
  IF entries = << >> THEN << >>
  ELSE EntryObject(Head(entries)) \o EntryObjects(Tail(entries))

jsonMarshal(entries) == <<LB, K>> \o EntryObjects(entries) \o <<C, RB>>

\* tryGenerateConversation after the HTTP exchange: from the response to the result
decodeReply(reply) ==
  IF reply.status # "ok" THEN [ok |-> FALSE, why |-> reply.status]
  ELSE LET match == FindString(reply.content) IN
       IF match = << >> THEN [ok |-> FALSE, why |-> "no valid JSON found in response"]
       ELSE LET conv == jsonUnmarshal(match) IN
            IF ~conv.ok THEN [ok |-> FALSE, why |-> "failed to parse conversation JSON"]
            ELSE IF Len(conv.Conversation) = 0
                 THEN [ok |-> FALSE, why |-> "parsed JSON contains no conversation entries"]
            ELSE [ok |-> TRUE, Conversation |-> conv.Conversation]

Speakers == <<"Brian", "Jenny">>

\* the service does not answer the same prompt the same way twice: its takes
Takes == {"a", "b"}

\* a dialogue about a summary: one entry per paper, the speakers alternating
Dialogue(text, take) ==
  [i \in 1..Len(text.items[1].div.about.headings) |->
     [Speaker |-> Speakers[((i - 1) % 2) + 1],
      Text |-> [about |-> text, line |-> i, take |-> take]]]

\* what the text-generation service can answer a conversation prompt with
ConversationReplies(text) ==
  { [status |-> "request failed"],
    [status |-> "ok", content |-> <<W, W>>],
    [status |-> "ok", content |-> <<W>> \o jsonMarshal(<< >>)] }
  \cup { [status |-> "ok", content |-> <<W>> \o jsonMarshal(Dialogue(text, take)) \o <<W>>] :
         take \in Takes }

\* the dialogue whose last utterance ends with an aside in braces
BracedDialogue(text) ==
  LET d == Dialogue(text, "a")
      n == Len(d)
  IN [i \in 1..n |->
        IF i = n
        THEN [Speaker |-> d[i].Speaker,
              Text |-> [about |-> text, line |-> i, take |-> "a", braces |-> TRUE]]
        ELSE d[i]]

\* a dialogue in which a third speaker joins
CrowdedDialogue(text) ==
  Dialogue(text, "a") \o
  << [Speaker |-> "Alex", Text |-> [about |-> text, line |-> 0, take |-> "a"]] >>

\* prose without a brace, before and after the object
Prose == { << >>, <<W>> }

\* what the service can put where the object is expected: a conversation, one
\* with braces in an utterance, one of three speakers, an empty one, an empty object, an object that is
\* no JSON, a conversation cut short, no object, braces the wrong way round
ReplyObjects(text) ==
  { jsonMarshal(Dialogue(text, "a")),
    jsonMarshal(BracedDialogue(text)),
    jsonMarshal(CrowdedDialogue(text)),
    jsonMarshal(<< >>),
    <<LB, RB>>,
    <<LB, W, RB>>,
    <<LB, K>> \o EntryObjects(Dialogue(text, "a")),
    <<W>>,
    <<RB, W, LB>> }

\* every answer of the text-generation service to a conversation prompt
AllReplies(text) ==
  { [status |-> "request failed"] } \cup
  { [status |-> "ok", content |-> pre \o obj \o post] :
      pre \in Prose, obj \in ReplyObjects(text), post \in Prose }

(***************************************************************************)
(* Podcast stage: pure parts.                                              *)
(***************************************************************************)
\* a faulty variant: the two voices are exchanged
VoiceOf_Exchanged(speaker) ==
  IF speaker = "Jenny" THEN "am_michael"
  ELSE IF speaker = "Brian" THEN "af_bella"
  ELSE "af_bella"

\* generateaudiopodcast: the voice of a speaker
VoiceOf(speaker) ==
  IF speaker = "Jenny" THEN "af_bella"
  ELSE IF speaker = "Brian" THEN "am_michael"
  ELSE "af_bella"

\* the audio the speech-synthesis service returns for one input
Speech(input, voice) == [voice |-> voice, input |-> input]

(***************************************************************************)
(* State.                                                                  *)
(***************************************************************************)
VARIABLES
  env,             \* the environment variables that are set
  initDone,        \* initOnce has run
  redisConnected,  \* var redisConnected
  cache,           \* the Redis keys: key -> value or Nil
  pc,              \* per handler: where it is
  kind,            \* per handler: the route of its request
  cancelled,       \* per handler: the request context is done
  loc,             \* per handler: the local variables of the call chain
  resp,            \* per handler: the response written
  calls,           \* per handler (history): outbound calls made by this request
  ops,             \* per handler (history): Redis commands issued by this request
  tries            \* per handler (history): outcomes of the attempts of the
                   \* extractConversation call that is running or has just returned

vars == <<env, initDone, redisConnected, cache, pc, kind, cancelled, loc, resp, calls, ops, tries>>

Loc0 ==
  [feed |-> Nil, summary |-> Nil, conversation |-> Nil, audio |-> << >>,
   attempt |-> 0, lastErr |-> Nil, round |-> 0, idx |-> 0, secretKey |-> "",
   papers |-> << >>, content |-> Nil]

\* the calls made to each service, the backoff waits ended, the services that failed a call
Calls0 == [scrape |-> 0, summarize |-> 0, converse |-> 0, synthesize |-> 0, waits |-> 0, failed |-> {}]

Init ==
  /\ env \in Envs
  /\ initDone = FALSE
  /\ redisConnected = FALSE
  /\ cache = [k \in Keys |-> Nil]
  /\ pc = [p \in Procs |-> "idle"]
  /\ kind = [p \in Procs |-> "feed"]
  /\ cancelled = [p \in Procs |-> FALSE]
  /\ loc = [p \in Procs |-> Loc0]
  /\ resp = [p \in Procs |-> Nil]
  /\ calls = [p \in Procs |-> Calls0]
  /\ ops = [p \in Procs |-> << >>]
  /\ tries = [p \in Procs |-> << >>]

(***************************************************************************)
(* Helpers: the response, an error return, a Redis command.                *)
(***************************************************************************)
Error(at, cause) == [t |-> "error", at |-> at, cause |-> cause]

\* the handler writes the artifact
Respond(p, body) ==
  /\ pc' = [pc EXCEPT ![p] = "done"]
  /\ resp' = [resp EXCEPT ![p] = [status |-> 200, body |-> body]]

\* an error travels up the call chain to Handler, which answers 500
Fail(p, err) ==
  /\ pc' = [pc EXCEPT ![p] = "done"]
  /\ resp' = [resp EXCEPT ![p] = [status |-> 500, body |-> err]]

Goto(p, label) ==
  /\ pc' = [pc EXCEPT ![p] = label]
  /\ UNCHANGED resp

\* rdb.Get(ctx, key): a hit, redis.Nil, or another error
GetResults(k) == {"error"} \cup (IF cache[k] = Nil THEN {"miss"} ELSE {"hit"})

\* the history keeps whether a Get was a hit, not why it was none
LogGet(p, k, r) ==
  ops' = [ops EXCEPT ![p] = Append(@, [op |-> "Get", key |-> k,
                                       res |-> IF r = "hit" THEN "hit" ELSE "none", val |-> Nil])]

\* a faulty variant: a Set that answers OK and keeps nothing
Set_NotKept(p, k, v, ok) ==
  /\ cache' = cache
  /\ ops' = [ops EXCEPT ![p] = Append(@, [op |-> "Set", key |-> k,
                                           res |-> IF ok THEN "ok" ELSE "error", val |-> v])]

\* a faulty variant: the first writer wins (a Set that keeps a value already there)
Set_IfAbsent(p, k, v, ok) ==
  /\ cache' = IF ok /\ cache[k] = Nil THEN [cache EXCEPT ![k] = v] ELSE cache
  /\ ops' = [ops EXCEPT ![p] = Append(@, [op |-> "Set", key |-> k,
                                           res |-> IF ok THEN "ok" ELSE "error", val |-> v])]

\* rdb.Set(ctx, key, value, cacheDuration): the key holds the value when it succeeds
Set(p, k, v, ok) ==
  /\ cache' = IF ok THEN [cache EXCEPT ![k] = v] ELSE cache
  /\ ops' = [ops EXCEPT ![p] = Append(@, [op |-> "Set", key |-> k,
                                           res |-> IF ok THEN "ok" ELSE "error", val |-> v])]

Called(p, what, ok) ==
  calls' = [calls EXCEPT ![p] = [@ EXCEPT ![what] = @ + 1,
                                    !.failed = IF ok THEN @ ELSE @ \cup {what}]]

NoTries(p) == tries' = [tries EXCEPT ![p] = << >>]

(***************************************************************************)
(* Handler: a request arrives, the context may be cancelled.               *)
(***************************************************************************)
\* the X-Update-Key header a request to /api/update-cache can carry: none, or "secret"
Headers(k) == IF k = "update-cache" THEN {"", "secret"} ELSE {""}

\* a request arrives for route k
Start(p, k) ==
  /\ pc[p] \in {"idle", "done"}
  /\ pc' = [pc EXCEPT ![p] = "Handler"]
  /\ kind' = [kind EXCEPT ![p] = k]
  /\ cancelled' = [cancelled EXCEPT ![p] = FALSE]
  /\ \E h \in Headers(k) : loc' = [loc EXCEPT ![p] = [Loc0 EXCEPT !.secretKey = h]]
  /\ resp' = [resp EXCEPT ![p] = Nil]
  /\ calls' = [calls EXCEPT ![p] = Calls0]
  /\ ops' = [ops EXCEPT ![p] = << >>]
  /\ NoTries(p)
  /\ UNCHANGED <<env, initDone, redisConnected, cache>>

\* the client goes away: r.Context() is done.  Only the select of extractConversation
\* reads ctx.Done(); everywhere else a cancelled context shows as the failure of the
\* next outbound call, which is one of that call's outcomes anyway.
Cancel(p) ==
  /\ pc[p] = "backoff"
  /\ ~cancelled[p]
  /\ cancelled' = [cancelled EXCEPT ![p] = TRUE]
  /\ UNCHANGED <<env, initDone, redisConnected, cache, pc, kind, loc, resp, calls, ops, tries>>

\* initRedis: the flag is set only with KV_URL set, parsed, and the ping answered
initRedis(probe) == env.KV_URL /\ probe

\* the first statement after the switch, per route
Route(k) ==
  IF k = "feed" THEN "getCachedFeed"
  ELSE IF k = "update-cache" THEN "updateAllCaches"
  ELSE "getCachedSummary"

\* os.Getenv("UPDATE_KEY")
expectedKey == IF env.UPDATE_KEY THEN "secret" ELSE ""

\* a faulty variant: the check does not refuse an UPDATE_KEY that is not set
Authorized_EmptyAccepted(p) == loc[p].secretKey = expectedKey

\* the negation of: expectedKey == "" || secretKey != expectedKey
Authorized(p) == expectedKey # "" /\ loc[p].secretKey = expectedKey

\* a faulty variant: no sync.Once, every request runs initRedis
HandlerEntry_ProbesEachTime(p) ==
  /\ pc[p] = "Handler"
  /\ \E probe \in (IF env.KV_URL THEN BOOLEAN ELSE {FALSE}) :
       initDone' = TRUE /\ redisConnected' = initRedis(probe)
  /\ IF kind[p] = "update-cache" /\ ~Authorized(p)
     THEN /\ pc' = [pc EXCEPT ![p] = "done"]
          /\ resp' = [resp EXCEPT ![p] = [status |-> 401, body |-> Error("Unauthorized", Nil)]]
     ELSE Goto(p, Route(kind[p]))
  /\ UNCHANGED <<env, cache, kind, cancelled, loc, calls, ops, tries>>

\* Handler up to the first call of the route: initOnce.Do(initRedis), the
\* X-Update-Key check of /api/update-cache
HandlerEntry(p) ==
  /\ pc[p] = "Handler"
  /\ \E probe \in (IF env.KV_URL /\ ~initDone THEN BOOLEAN ELSE {FALSE}) :
       IF initDone THEN UNCHANGED <<initDone, redisConnected>>
       ELSE initDone' = TRUE /\ redisConnected' = initRedis(probe)
  /\ IF kind[p] = "update-cache" /\ ~Authorized(p)
     THEN /\ pc' = [pc EXCEPT ![p] = "done"]
          /\ resp' = [resp EXCEPT ![p] = [status |-> 401, body |-> Error("Unauthorized", Nil)]]
     ELSE Goto(p, Route(kind[p]))
  /\ UNCHANGED <<env, cache, kind, cancelled, loc, calls, ops, tries>>

(***************************************************************************)
(* Feed stage.                                                             *)
(***************************************************************************)
\* what scrapePapers can return: an error, or a listing
ScrapeResults(p) ==
  {[ok |-> FALSE]} \cup { [ok |-> TRUE, papers |-> l] : l \in Listings }

\* getCachedFeed returns feed to its caller: Handler (/api/feed) or generateSummaryDirect
FeedReturns(p, feed) ==
  IF kind[p] = "feed" THEN Respond(p, feed) ELSE Goto(p, "summarizeWithLLM")

\* a faulty variant: the cached feed is written back after a hit
GetCachedFeed_CachesHit(p) ==
  /\ pc[p] = "getCachedFeed"
  /\ IF ~redisConnected
     THEN /\ Goto(p, "generateFeedDirect")
          /\ UNCHANGED <<loc, ops>>
     ELSE \E r \in GetResults("cacheKey") :
            /\ LogGet(p, "cacheKey", r)
            /\ IF r = "hit"
               THEN /\ loc' = [loc EXCEPT ![p].feed = cache["cacheKey"]]
                    /\ Goto(p, "setFeed")
               ELSE /\ Goto(p, "generateFeedDirect")
                    /\ UNCHANGED loc
  /\ NoTries(p)
  /\ UNCHANGED <<env, initDone, redisConnected, cache, kind, cancelled, calls>>

\* getCachedFeed up to the return of the cached feed or the call of generateFeedDirect
GetCachedFeed(p) ==
  /\ pc[p] = "getCachedFeed"
  /\ IF ~redisConnected
     THEN /\ Goto(p, "generateFeedDirect")
          /\ UNCHANGED <<loc, ops>>
     ELSE \E r \in GetResults("cacheKey") :
            /\ LogGet(p, "cacheKey", r)
            /\ IF r = "hit"
               THEN /\ loc' = [loc EXCEPT ![p].feed = cache["cacheKey"]]
                    /\ FeedReturns(p, cache["cacheKey"])
               ELSE /\ Goto(p, "generateFeedDirect")
                    /\ UNCHANGED loc
  /\ NoTries(p)
  /\ UNCHANGED <<env, initDone, redisConnected, cache, kind, cancelled, calls>>

\* where generateFeedDirect returns to: updateAllCaches, or getCachedFeed, which
\* caches the feed when Redis is connected
AfterFeedDirect(p, feed) ==
  IF kind[p] = "update-cache" THEN Goto(p, "updateFeedCache")
  ELSE IF redisConnected THEN Goto(p, "setFeed")
  ELSE FeedReturns(p, feed)

\* generateFeedDirect: scrapePapers, then generateRSS; papers is what the crawler
\* of scrapePapers collected before the limit
GenerateFeedDirectFrom(p, results) ==
  /\ pc[p] = "generateFeedDirect"
  /\ \E scraped \in results :
       /\ Called(p, "scrape", scraped.ok)
       /\ IF ~scraped.ok
          THEN /\ Fail(p, Error("failed scraping papers", Nil))
               /\ UNCHANGED loc
          ELSE LET feed == generateRSS(LimitPapers(scraped.papers)) IN
               /\ loc' = [loc EXCEPT ![p].feed = feed, ![p].papers = scraped.papers]
               /\ AfterFeedDirect(p, feed)
  /\ NoTries(p)
  /\ UNCHANGED <<env, initDone, redisConnected, cache, kind, cancelled, ops>>

GenerateFeedDirect(p) == GenerateFeedDirectFrom(p, ScrapeResults(p))

\* a faulty variant: getCachedFeed returns the error of rdb.Set
SetFeed_ReturnsError(p) ==
  /\ pc[p] = "setFeed"
  /\ \E ok \in BOOLEAN :
       /\ Set(p, "cacheKey", loc[p].feed, ok)
       /\ IF ok THEN FeedReturns(p, loc[p].feed)
          ELSE Fail(p, Error("failed to cache feed", Nil))
  /\ NoTries(p)
  /\ UNCHANGED <<env, initDone, redisConnected, kind, cancelled, loc, calls>>

\* getCachedFeed: rdb.Set of the new feed; a failure is logged
SetFeed(p) ==
  /\ pc[p] = "setFeed"
  /\ \E ok \in BOOLEAN : Set(p, "cacheKey", loc[p].feed, ok)
  /\ FeedReturns(p, loc[p].feed)
  /\ NoTries(p)
  /\ UNCHANGED <<env, initDone, redisConnected, kind, cancelled, loc, calls>>

(***************************************************************************)
(* Summary stage.                                                          *)
(***************************************************************************)
\* what summarizeWithLLM can get from the service for a prompt: an error, or a content
SummaryResults(p, markdown) == {Nil} \cup SummaryContents(markdown)

\* getCachedSummary returns summary to Handler, which answers (/api/summary) or goes on
SummaryReturns(p, summary) ==
  IF kind[p] = "summary" THEN Respond(p, summary)
  ELSE IF kind[p] = "conversation" THEN Goto(p, "getcachedconversation")
  ELSE Goto(p, "getcachedpodcast")

\* getCachedSummary up to the return of the cached summary or the call of
\* generateSummaryDirect, whose first statement is getCachedFeed
GetCachedSummary(p) ==
  /\ pc[p] = "getCachedSummary"
  /\ IF ~redisConnected
     THEN /\ Goto(p, "getCachedFeed")
          /\ UNCHANGED <<loc, ops>>
     ELSE \E r \in GetResults("summaryCacheKey") :
            /\ LogGet(p, "summaryCacheKey", r)
            /\ IF r = "hit"
               THEN /\ loc' = [loc EXCEPT ![p].summary = cache["summaryCacheKey"]]
                    /\ SummaryReturns(p, cache["summaryCacheKey"])
               ELSE /\ Goto(p, "getCachedFeed")
                    /\ UNCHANGED loc
  /\ NoTries(p)
  /\ UNCHANGED <<env, initDone, redisConnected, cache, kind, cancelled, calls>>

\* a faulty variant: the summary is made from the cached feed when there is one
SummaryInput_FromCache(p) ==
  IF cache["cacheKey"] = Nil THEN loc[p].feed ELSE cache["cacheKey"]

\* the feed the summary is made from: the one this call chain holds in memory
SummaryInput(p) == loc[p].feed

\* where the summary goes: updateAllCaches, or getCachedSummary, which caches it
\* when Redis is connected
AfterSummaryDirect(p, summary) ==
  IF kind[p] = "update-cache" THEN Goto(p, "updateSummaryCache")
  ELSE IF redisConnected THEN Goto(p, "setSummary")
  ELSE SummaryReturns(p, summary)

\* parseRSSToMarkdown, summarizeWithLLM, generateSummaryRSS (generateSummaryDirect
\* after getCachedFeed; updateAllCaches steps 3 to 5)
SummarizeWithLLMFrom(p, results) ==
  /\ pc[p] = "summarizeWithLLM"
  /\ IF ~env.HF_API_KEY
     THEN /\ Fail(p, Error("HF_API_KEY environment variable is not set", Nil))
          /\ UNCHANGED <<loc, calls>>
     ELSE \E content \in results :
            /\ Called(p, "summarize", content # Nil)
            /\ IF content = Nil
               THEN /\ Fail(p, Error("failed to summarize markdown with LLM", Nil))
                    /\ UNCHANGED loc
               ELSE LET response == [content EXCEPT !.text = stripThink(@)]
                        summary == generateSummaryRSS(response)
                    IN
                    /\ loc' = [loc EXCEPT ![p].summary = summary,
                                           ![p].content = [t |-> "text", tokens |-> content.text]]
                    /\ AfterSummaryDirect(p, summary)
  /\ NoTries(p)
  /\ UNCHANGED <<env, initDone, redisConnected, cache, kind, cancelled, ops>>

SummarizeWithLLM(p) ==
  SummarizeWithLLMFrom(p, SummaryResults(p, parseRSSToMarkdown(SummaryInput(p))))

\* getCachedSummary: rdb.Set of the new summary; a failure is logged
SetSummary(p) ==
  /\ pc[p] = "setSummary"
  /\ \E ok \in BOOLEAN : Set(p, "summaryCacheKey", loc[p].summary, ok)
  /\ SummaryReturns(p, loc[p].summary)
  /\ NoTries(p)
  /\ UNCHANGED <<env, initDone, redisConnected, kind, cancelled, loc, calls>>

(***************************************************************************)
(* Conversation stage and the retry loop.                                  *)
(***************************************************************************)
Json(tokens) == [t |-> "json", tokens |-> tokens]

\* what one tryGenerateConversation gets from the service
ReplyResults(p, text) == ConversationReplies(text)

\* generatePodcastConversation returns to getcachedconversation (and from there to
\* Handler or getcachedpodcast) or to updateAllCaches
ConversationReturns(p, conversation) ==
  IF kind[p] = "conversation" THEN Respond(p, conversation)
  ELSE IF kind[p] = "podcast" THEN Goto(p, "generateaudiopodcast")
  ELSE Goto(p, "updateConversationCache")

\* getcachedconversation up to the return of the cached conversation or the call
\* of generatePodcastConversation -> extractConversation(ctx, text, 3)
GetCachedConversation(p) ==
  /\ pc[p] = "getcachedconversation"
  /\ IF ~redisConnected
     THEN /\ Goto(p, "tryGenerateConversation")
          /\ loc' = [loc EXCEPT ![p].attempt = 1]
          /\ UNCHANGED ops
     ELSE \E r \in GetResults("conversationCacheKey") :
            /\ LogGet(p, "conversationCacheKey", r)
            /\ IF r = "hit"
               THEN /\ loc' = [loc EXCEPT ![p].conversation = cache["conversationCacheKey"]]
                    /\ ConversationReturns(p, cache["conversationCacheKey"])
               ELSE /\ Goto(p, "tryGenerateConversation")
                    /\ loc' = [loc EXCEPT ![p].attempt = 1]
  /\ NoTries(p)
  /\ UNCHANGED <<env, initDone, redisConnected, cache, kind, cancelled, calls>>

\* a faulty variant: extractConversation keeps the error of the first failed attempt
LastErrAfter_KeepsFirst(p, err) ==
  IF loc[p].lastErr = Nil THEN err ELSE loc[p].lastErr

\* extractConversation: lastErr = err
LastErrAfter(p, err) == err

\* extractConversation: if attempt < maxRetries
MoreAttempts(p) == loc[p].attempt < maxRetries

\* extractConversation after a failed attempt: wait before the next one while
\* attempt < maxRetries, else give up with the last error
AfterFailedAttempt(p, err, content) ==
  LET lastErr == LastErrAfter(p, err) IN
  /\ loc' = [loc EXCEPT ![p].lastErr = lastErr, ![p].content = content]
  /\ IF MoreAttempts(p)
     THEN Goto(p, "backoff")
     ELSE Fail(p, Error("failed to generate conversation after 3 attempts", lastErr))

\* a faulty variant: extractConversation does not return on success while attempts are left
AfterGoodAttempt_KeepsTrying(p, entries, content) ==
  LET conversation == Json(jsonMarshal(entries)) IN
  IF MoreAttempts(p)
  THEN /\ loc' = [loc EXCEPT ![p].conversation = conversation, ![p].content = content]
       /\ Goto(p, "backoff")
  ELSE /\ loc' = [loc EXCEPT ![p].conversation = conversation, ![p].attempt = 0, ![p].lastErr = Nil,
                         ![p].content = content]
       /\ IF redisConnected THEN Goto(p, "setConversation")
          ELSE ConversationReturns(p, conversation)

\* a faulty variant: generatePodcastConversation caches the conversation without consulting the flag
AfterGoodAttempt_AlwaysCaches(p, entries, content) ==
  LET conversation == Json(jsonMarshal(entries)) IN
  /\ loc' = [loc EXCEPT ![p].conversation = conversation, ![p].attempt = 0, ![p].lastErr = Nil,
                         ![p].content = content]
  /\ Goto(p, "setConversation")

\* extractConversation after a successful attempt: return it; generatePodcastConversation
\* marshals it and caches it when Redis is connected
AfterGoodAttempt(p, entries, content) ==
  LET conversation == Json(jsonMarshal(entries)) IN
  /\ loc' = [loc EXCEPT ![p].conversation = conversation, ![p].attempt = 0, ![p].lastErr = Nil,
                         ![p].content = content]
  /\ IF redisConnected THEN Goto(p, "setConversation")
     ELSE ConversationReturns(p, conversation)

\* one iteration of the loop of extractConversation: tryGenerateConversation;
\* content is llmResp.Choices[0].Message.Content
TryGenerateConversationFrom(p, replies) ==
  /\ pc[p] = "tryGenerateConversation"
  /\ IF ~env.HF_API_KEY
     THEN LET err == [attempt |-> loc[p].attempt, why |-> "HF_API_KEY environment variable is not set"] IN
          /\ tries' = [tries EXCEPT ![p] = Append(@, [ok |-> FALSE, attempt |-> loc[p].attempt])]
          /\ AfterFailedAttempt(p, err, Nil)
          /\ UNCHANGED calls
     ELSE \E reply \in replies :
            LET res == decodeReply(reply)
                err == [attempt |-> loc[p].attempt, why |-> res.why]
                content == IF reply.status = "ok" THEN [t |-> "text", tokens |-> reply.content] ELSE Nil
            IN
            /\ Called(p, "converse", res.ok)
            /\ IF res.ok
               THEN /\ tries' = [tries EXCEPT ![p] = Append(@, [ok |-> TRUE, attempt |-> loc[p].attempt, out |-> res.Conversation])]
                    /\ AfterGoodAttempt(p, res.Conversation, content)
               ELSE /\ tries' = [tries EXCEPT ![p] = Append(@, [ok |-> FALSE, attempt |-> loc[p].attempt])]
                    /\ AfterFailedAttempt(p, err, content)
  /\ UNCHANGED <<env, initDone, redisConnected, cache, kind, cancelled, ops>>

TryGenerateConversation(p) == TryGenerateConversationFrom(p, ReplyResults(p, loc[p].summary))

\* a faulty variant: the wait does not listen to ctx.Done()
TimerWins_IgnoresCancel(p) == TRUE

\* the select of extractConversation: the timer is taken when it fires before
\* ctx.Done(); the timer (2 s or more) is not ready when the select is entered
TimerWins(p) == ~cancelled[p]

\* the select of extractConversation: time.After(backoff + jitter) fires first
BackoffElapsed(p) ==
  /\ pc[p] = "backoff"
  /\ TimerWins(p)
  /\ Goto(p, "tryGenerateConversation")
  /\ loc' = [loc EXCEPT ![p].attempt = @ + 1]
  /\ calls' = [calls EXCEPT ![p].waits = @ + 1]
  /\ UNCHANGED <<env, initDone, redisConnected, cache, kind, cancelled, ops, tries>>

\* the select of extractConversation: ctx.Done() fires first
BackoffCancelled(p) ==
  /\ pc[p] = "backoff"
  /\ cancelled[p]
  /\ Fail(p, Error("context cancelled during retry wait", Nil))
  /\ calls' = [calls EXCEPT ![p].waits = @ + 1]
  /\ UNCHANGED <<env, initDone, redisConnected, cache, kind, cancelled, loc, ops, tries>>

\* generatePodcastConversation: rdb.Set of the new conversation; a failure is logged
SetConversation(p) ==
  /\ pc[p] = "setConversation"
  /\ \E ok \in BOOLEAN : Set(p, "conversationCacheKey", loc[p].conversation, ok)
  /\ ConversationReturns(p, loc[p].conversation)
  /\ NoTries(p)
  /\ UNCHANGED <<env, initDone, redisConnected, kind, cancelled, loc, calls>>

(***************************************************************************)
(* Podcast stage.                                                          *)
(***************************************************************************)
\* getcachedpodcast up to the return of the cached audio or the call of getcachedconversation
GetCachedPodcast(p) ==
  /\ pc[p] = "getcachedpodcast"
  /\ IF ~redisConnected
     THEN /\ Goto(p, "getcachedconversation")
          /\ UNCHANGED <<loc, ops>>
     ELSE \E r \in GetResults("podcastCacheKey") :
            /\ LogGet(p, "podcastCacheKey", r)
            /\ UNCHANGED loc
            /\ IF r = "hit"
               THEN Respond(p, cache["podcastCacheKey"])
               ELSE Goto(p, "getcachedconversation")
  /\ NoTries(p)
  /\ UNCHANGED <<env, initDone, redisConnected, cache, kind, cancelled, calls>>

Audio(segments) == [t |-> "audio", segments |-> segments]

\* generateaudiopodcast returns to updateAllCaches, or to getcachedpodcast, which
\* caches the audio when Redis is connected
AudioReturns(p, audio) ==
  IF kind[p] = "update-cache" THEN Goto(p, "updatePodcastCache")
  ELSE IF redisConnected THEN Goto(p, "setPodcast")
  ELSE Respond(p, Audio(audio))

\* generateaudiopodcast before its loop: json.Unmarshal and the API key
GenerateAudioPodcast(p) ==
  /\ pc[p] = "generateaudiopodcast"
  /\ LET conv == jsonUnmarshal(loc[p].conversation.tokens) IN
     IF ~conv.ok
     THEN /\ Fail(p, Error("failed to parse conversation", Nil))
          /\ UNCHANGED loc
     ELSE IF ~env.DEEPINFRA_API_KEY
     THEN /\ Fail(p, Error("DEEPINFRA_API_KEY environment variable is not set", Nil))
          /\ UNCHANGED loc
     ELSE IF Len(conv.Conversation) = 0
     THEN /\ AudioReturns(p, << >>)
          /\ loc' = [loc EXCEPT ![p].audio = << >>]
     ELSE /\ Goto(p, "synthesize")
          /\ loc' = [loc EXCEPT ![p].audio = << >>, ![p].idx = 1]
  /\ NoTries(p)
  /\ UNCHANGED <<env, initDone, redisConnected, cache, kind, cancelled, calls, ops>>

\* a faulty variant: a failed synthesis call is issued again
SynthesisFails_Retries(p) ==
  /\ Goto(p, "synthesize")
  /\ UNCHANGED loc

\* a faulty variant: a failed synthesis call ends the loop and the buffer is returned
SynthesisFails_ReturnsBuffer(p) ==
  /\ AudioReturns(p, loc[p].audio)
  /\ UNCHANGED loc

\* generateaudiopodcast: a failed synthesis call returns the error, not the buffer
SynthesisFails(p) ==
  /\ Fail(p, Error("failed to generate audio podcast", Nil))
  /\ UNCHANGED loc

\* one iteration of the loop of generateaudiopodcast: one synthesis call, its
\* audio appended to the buffer
Synthesize(p) ==
  /\ pc[p] = "synthesize"
  /\ LET entries == jsonUnmarshal(loc[p].conversation.tokens).Conversation
         entry == entries[loc[p].idx]
     IN
     \E ok \in BOOLEAN :
       /\ Called(p, "synthesize", ok)
       /\ IF ~ok
          THEN SynthesisFails(p)
          ELSE LET audio == Append(loc[p].audio, Speech(entry.Text, VoiceOf(entry.Speaker))) IN
               IF loc[p].idx = Len(entries)
               THEN /\ loc' = [loc EXCEPT ![p].audio = audio, ![p].idx = 0]
                    /\ AudioReturns(p, audio)
               ELSE /\ loc' = [loc EXCEPT ![p].audio = audio, ![p].idx = @ + 1]
                    /\ Goto(p, "synthesize")
  /\ NoTries(p)
  /\ UNCHANGED <<env, initDone, redisConnected, cache, kind, cancelled, ops>>

\* getcachedpodcast: rdb.Set of the new audio; a failure is logged
SetPodcast(p) ==
  /\ pc[p] = "setPodcast"
  /\ \E ok \in BOOLEAN : Set(p, "podcastCacheKey", Audio(loc[p].audio), ok)
  /\ Respond(p, Audio(loc[p].audio))
  /\ NoTries(p)
  /\ UNCHANGED <<env, initDone, redisConnected, kind, cancelled, loc, calls>>

(***************************************************************************)
(* updateAllCaches (POST /api/update-cache).                               *)
(***************************************************************************)
\* a faulty variant: updateAllCaches without the redisConnected check
UpdateAllCaches_NoCheck(p) ==
  /\ pc[p] = "updateAllCaches"
  /\ Goto(p, "generateFeedDirect")
  /\ NoTries(p)
  /\ UNCHANGED <<env, initDone, redisConnected, cache, kind, cancelled, loc, calls, ops>>

\* updateAllCaches: the redisConnected check, then generateFeedDirect
UpdateAllCaches(p) ==
  /\ pc[p] = "updateAllCaches"
  /\ IF ~redisConnected
     THEN Fail(p, Error("redis not connected, cannot update caches", Nil))
     ELSE Goto(p, "generateFeedDirect")
  /\ NoTries(p)
  /\ UNCHANGED <<env, initDone, redisConnected, cache, kind, cancelled, loc, calls, ops>>

\* a faulty variant: step 2 returns the error of rdb.Set, as the later steps do
UpdateFeedCache_Aborts(p) ==
  /\ pc[p] = "updateFeedCache"
  /\ \E ok \in BOOLEAN :
       /\ Set(p, "cacheKey", loc[p].feed, ok)
       /\ IF ok THEN Goto(p, "summarizeWithLLM")
          ELSE Fail(p, Error("failed to update feed cache", Nil))
  /\ NoTries(p)
  /\ UNCHANGED <<env, initDone, redisConnected, kind, cancelled, loc, calls>>

\* step 2: rdb.Set of the fresh feed; "Log the error but continue"
UpdateFeedCache(p) ==
  /\ pc[p] = "updateFeedCache"
  /\ \E ok \in BOOLEAN : Set(p, "cacheKey", loc[p].feed, ok)
  /\ Goto(p, "summarizeWithLLM")
  /\ NoTries(p)
  /\ UNCHANGED <<env, initDone, redisConnected, kind, cancelled, loc, calls>>

\* a faulty variant: step 6 logs the error of rdb.Set and continues, as step 2 does
UpdateSummaryCache_Continues(p) ==
  /\ pc[p] = "updateSummaryCache"
  /\ \E ok \in BOOLEAN : Set(p, "summaryCacheKey", loc[p].summary, ok)
  /\ Goto(p, "tryGenerateConversation")
  /\ loc' = [loc EXCEPT ![p].attempt = 1, ![p].round = 1]
  /\ NoTries(p)
  /\ UNCHANGED <<env, initDone, redisConnected, kind, cancelled, calls>>

\* step 6: rdb.Set of the summary; an error is returned; then the first
\* generatePodcastConversation(ctx, string(summaryRSSBytes))
UpdateSummaryCache(p) ==
  /\ pc[p] = "updateSummaryCache"
  /\ \E ok \in BOOLEAN :
       /\ Set(p, "summaryCacheKey", loc[p].summary, ok)
       /\ IF ok
          THEN /\ Goto(p, "tryGenerateConversation")
               /\ loc' = [loc EXCEPT ![p].attempt = 1, ![p].round = 1]
          ELSE /\ Fail(p, Error("failed to update summary cache", Nil))
               /\ UNCHANGED loc
  /\ NoTries(p)
  /\ UNCHANGED <<env, initDone, redisConnected, kind, cancelled, calls>>

\* step 7 and its repetition: rdb.Set of the conversation; an error is returned;
\* after the first, generatePodcastConversation is called a second time on the
\* same summary; after the second, generateaudiopodcast
UpdateConversationCache(p) ==
  /\ pc[p] = "updateConversationCache"
  /\ \E ok \in BOOLEAN :
       /\ Set(p, "conversationCacheKey", loc[p].conversation, ok)
       /\ IF ~ok
          THEN /\ Fail(p, Error("failed to update conversation cache", Nil))
               /\ UNCHANGED loc
          ELSE IF loc[p].round = 1
          THEN /\ Goto(p, "tryGenerateConversation")
               /\ loc' = [loc EXCEPT ![p].attempt = 1, ![p].round = 2]
          ELSE /\ Goto(p, "generateaudiopodcast")
               /\ UNCHANGED loc
  /\ NoTries(p)
  /\ UNCHANGED <<env, initDone, redisConnected, kind, cancelled, calls>>

\* rdb.Set of the audio; an error is returned; else the status document
UpdatePodcastCache(p) ==
  /\ pc[p] = "updatePodcastCache"
  /\ \E ok \in BOOLEAN :
       /\ Set(p, "podcastCacheKey", Audio(loc[p].audio), ok)
       /\ IF ok
          THEN Respond(p, [t |-> "status", status |-> "Cache updated successfully"])
          ELSE Fail(p, Error("failed to update podcast cache", Nil))
  /\ NoTries(p)
  /\ UNCHANGED <<env, initDone, redisConnected, kind, cancelled, loc, calls>>

(***************************************************************************)
(* The specification: one request at a time.                               *)
(***************************************************************************)
Step(p) ==
  \/ HandlerEntry(p)
  \/ Cancel(p)
  \/ GetCachedFeed(p)
  \/ GenerateFeedDirect(p)
  \/ SetFeed(p)
  \/ GetCachedSummary(p)
  \/ SummarizeWithLLM(p)
  \/ SetSummary(p)
  \/ GetCachedConversation(p)
  \/ TryGenerateConversation(p)
  \/ BackoffElapsed(p)
  \/ BackoffCancelled(p)
  \/ SetConversation(p)
  \/ GetCachedPodcast(p)
  \/ GenerateAudioPodcast(p)
  \/ Synthesize(p)
  \/ SetPodcast(p)
  \/ UpdateAllCaches(p)
  \/ UpdateFeedCache(p)
  \/ UpdateSummaryCache(p)
  \/ UpdateConversationCache(p)
  \/ UpdatePodcastCache(p)

Next ==
  \E p \in SeqProcs :
    \/ \E k \in Kinds : Start(p, k)
    \/ Step(p)

Spec == Init /\ [][Next]_vars

TypeOK ==
  /\ env \in Envs
  /\ redisConnected \in BOOLEAN
  /\ \A p \in Procs : pc[p] \in {"idle", "done", "Handler", "getCachedFeed", "generateFeedDirect",
        "setFeed", "getCachedSummary", "summarizeWithLLM", "setSummary", "getcachedconversation",
        "tryGenerateConversation", "backoff", "setConversation", "getcachedpodcast",
        "generateaudiopodcast", "synthesize", "setPodcast", "updateAllCaches", "updateFeedCache",
        "updateSummaryCache", "updateConversationCache", "updatePodcastCache"}

(***************************************************************************)
(* The feed route alone, with listings of every length around maxPapers.   *)
(***************************************************************************)
LongScrapeResults ==
  {[ok |-> FALSE]} \cup { [ok |-> TRUE, papers |-> l] : l \in LongListings }

NextFeed ==
  \E p \in SeqProcs :
    \/ Start(p, "feed")
    \/ HandlerEntry(p)
    \/ GetCachedFeed(p)
    \/ GenerateFeedDirectFrom(p, LongScrapeResults)
    \/ SetFeed(p)

SpecFeed == Init /\ [][NextFeed]_vars

(***************************************************************************)
(* The conversation route alone, with every kind of answer of the          *)
(* text-generation service.                                                *)
(***************************************************************************)
NextDecode ==
  \E p \in SeqProcs :
    \/ Start(p, "conversation")
    \/ HandlerEntry(p)
    \/ GetCachedSummary(p)
    \/ GetCachedFeed(p)
    \/ GenerateFeedDirect(p)
    \/ SetFeed(p)
    \/ SummarizeWithLLM(p)
    \/ SetSummary(p)
    \/ GetCachedConversation(p)
    \/ TryGenerateConversationFrom(p, AllReplies(loc[p].summary))
    \/ Cancel(p)
    \/ BackoffElapsed(p)
    \/ BackoffCancelled(p)
    \/ SetConversation(p)

SpecDecode == Init /\ [][NextDecode]_vars

(***************************************************************************)
(* Two handlers at once on the feed and summary routes: net/http runs each *)
(* request in a goroutine of its own, and the steps of the two interleave. *)
(***************************************************************************)
NextConc ==
  \E p \in Procs :
    \/ \E k \in {"feed", "summary"} : Start(p, k)
    \/ HandlerEntry(p)
    \/ GetCachedFeed(p)
    \/ GenerateFeedDirect(p)
    \/ SetFeed(p)
    \/ GetCachedSummary(p)
    \/ SummarizeWithLLM(p)
    \/ SetSummary(p)

SpecConc == Init /\ [][NextConc]_vars

(***************************************************************************)
(* The history of a request, read by the properties below.                 *)
(***************************************************************************)
OnDemand == {"feed", "summary", "conversation", "podcast"}

GetsOf(p) == { i \in DOMAIN ops[p] : ops[p][i].op = "Get" }
SetsOf(p, k) == { i \in DOMAIN ops[p] : ops[p][i].op = "Set" /\ ops[p][i].key = k }
OkSetsOf(p, k) == { i \in SetsOf(p, k) : ops[p][i].res = "ok" }
LastOf(S) == CHOOSE i \in S : \A j \in S : j <= i

NoUpstreamCall(p) ==
  /\ calls[p].scrape = 0
  /\ calls[p].summarize = 0
  /\ calls[p].converse = 0
  /\ calls[p].synthesize = 0

\* every call this request made to a service was answered well, and the
\* credentials of the services the route needs are configured
UpstreamsWork(p) ==
  /\ calls[p].failed = {}
  /\ kind[p] # "feed" => env.HF_API_KEY
  /\ kind[p] = "podcast" => env.DEEPINFRA_API_KEY

\* the artifact a route answers with
IsArtifactOf(k, body) ==
  IF k = "feed" THEN body.t = "rss" /\ body.channel = "papers"
  ELSE IF k = "summary" THEN body.t = "rss" /\ body.channel = "summary"
  ELSE IF k = "conversation" THEN body.t = "json"
  ELSE body.t = "audio"

(***************************************************************************)
(* C1.  With redisConnected false, an on-demand request (feed, summary,    *)
(* conversation, podcast) issues no Get and no Set, the store keeps no     *)
(* key, and the request, when its upstream calls are answered well, ends   *)
(* with status 200 and the artifact of its route.                          *)
(***************************************************************************)
C1_UnusableStoreIsNeverCalled ==
  \A p \in Procs :
    (initDone /\ ~redisConnected /\ kind[p] \in OnDemand) =>
      /\ ops[p] = << >>
      /\ \A k \in Keys : cache[k] = Nil
      /\ (pc[p] = "done" /\ UpstreamsWork(p)) =>
           /\ resp[p].status = 200
           /\ IsArtifactOf(kind[p], resp[p].body)

\* a podcast request generated all four artifacts directly, without the store
C1_Witness ==
  \E p \in Procs :
    /\ initDone /\ ~redisConnected
    /\ kind[p] = "podcast" /\ pc[p] = "done"
    /\ resp[p].status = 200 /\ resp[p].body.t = "audio"
    /\ calls[p].scrape = 1 /\ calls[p].summarize = 1
    /\ calls[p].converse >= 1 /\ calls[p].synthesize >= 1

(***************************************************************************)
(* C2.  A podcast request whose Get of the podcast key is a hit has made   *)
(* no call to the content source, the text-generation service or the       *)
(* speech-synthesis service, and answers the cached bytes.                 *)
(* The code does not do this: Handler calls getCachedSummary before        *)
(* getcachedpodcast, and a summary miss regenerates the summary.           *)
(***************************************************************************)
C2_PodcastHitCallsNoUpstream ==
  \A p \in Procs :
    (kind[p] = "podcast" /\
     \E i \in GetsOf(p) : ops[p][i].key = "podcastCacheKey" /\ ops[p][i].res = "hit") =>
      /\ NoUpstreamCall(p)
      /\ pc[p] = "done"
      /\ resp[p] = [status |-> 200, body |-> cache["podcastCacheKey"]]

(***************************************************************************)
(* Stages of updateAllCaches: 1 feed, 2 summary, 3 conversation, 4 podcast.*)
(***************************************************************************)
StageOfKey(k) ==
  IF k = "cacheKey" THEN 1
  ELSE IF k = "summaryCacheKey" THEN 2
  ELSE IF k = "conversationCacheKey" THEN 3
  ELSE 4

\* the stage an error of updateAllCaches comes from; 0 before the first stage
StageOfError(at) ==
  IF at = "failed scraping papers" THEN 1
  ELSE IF at \in {"HF_API_KEY environment variable is not set",
                  "failed to summarize markdown with LLM",
                  "failed to update summary cache"} THEN 2
  ELSE IF at \in {"failed to generate conversation after 3 attempts",
                  "context cancelled during retry wait",
                  "failed to update conversation cache"} THEN 3
  ELSE IF at \in {"failed to parse conversation",
                  "DEEPINFRA_API_KEY environment variable is not set",
                  "failed to generate audio podcast",
                  "failed to update podcast cache"} THEN 4
  ELSE 0

\* updateAllCaches was called for p (the request passed the X-Update-Key check)
Refreshing(p) ==
  /\ kind[p] = "update-cache" /\ pc[p] \notin {"idle", "Handler"}
  /\ ~(pc[p] = "done" /\ resp[p].status = 401)

\* the refresh of p ended with an error of stage s
RefreshFailedIn(p, s) ==
  /\ kind[p] = "update-cache" /\ pc[p] = "done"
  /\ resp[p].status = 500 /\ StageOfError(resp[p].body.at) = s

\* the value the refresh of p holds in memory for key k
FreshOf(p, k) ==
  IF k = "cacheKey" THEN loc[p].feed
  ELSE IF k = "summaryCacheKey" THEN loc[p].summary
  ELSE IF k = "conversationCacheKey" THEN loc[p].conversation
  ELSE Audio(loc[p].audio)

(***************************************************************************)
(* C3.  A refresh that fails in stage s (summary, conversation, podcast)   *)
(* answers an error, has run nothing of a later stage, and leaves in       *)
(* every key of an earlier stage the fresh value it wrote there (the       *)
(* summary and conversation keys were written; the feed key when its write *)
(* succeeded).  No step of a refresh changes the podcast key except the    *)
(* one that ends the refresh with Ok, so a refresh failing at speech       *)
(* synthesis leaves the podcast key as it was.                             *)
(***************************************************************************)
C3_FailedStage(p, s) ==
  /\ \A i \in DOMAIN ops[p] : ops[p][i].op = "Set" /\ StageOfKey(ops[p][i].key) <= s
  /\ s < 3 => calls[p].converse = 0
  /\ s < 4 => calls[p].synthesize = 0
  /\ \A k \in Keys :
       StageOfKey(k) < s =>
         /\ k # "cacheKey" => OkSetsOf(p, k) # {}
         /\ OkSetsOf(p, k) # {} =>
              /\ cache[k] = ops[p][LastOf(OkSetsOf(p, k))].val
              /\ cache[k] = FreshOf(p, k)

C3_NoRollbackState ==
  \A p \in Procs : \A s \in 2..4 : RefreshFailedIn(p, s) => C3_FailedStage(p, s)

C3_PodcastKeyStep ==
  \A p \in Procs :
    (kind[p] = "update-cache" /\ cache'["podcastCacheKey"] # cache["podcastCacheKey"]) =>
      /\ pc[p] = "updatePodcastCache" /\ pc'[p] = "done"
      /\ resp'[p].status = 200

\* C3: a failed refresh ran no later stage and rolled nothing back, and only the
\* last step of a successful refresh changes the podcast key
C3_FailedRefreshKeepsEarlierKeys == [](C3_NoRollbackState) /\ [][C3_PodcastKeyStep]_vars

\* a refresh failed at speech synthesis: three fresh keys, and a podcast key
\* that holds the audio of another conversation
C3_Witness ==
  \E p \in Procs :
    /\ RefreshFailedIn(p, 4) /\ resp[p].body.at = "failed to generate audio podcast"
    /\ \A k \in Keys \ {"podcastCacheKey"} : cache[k] = FreshOf(p, k)
    /\ cache["podcastCacheKey"] # Nil
    /\ LET entries == jsonUnmarshal(loc[p].conversation.tokens).Conversation IN
       cache["podcastCacheKey"] # Audio([i \in DOMAIN entries |->
                                          Speech(entries[i].Text, VoiceOf(entries[i].Speaker))])

(***************************************************************************)
(* C4.  A refresh issues no Get.  Its Sets come in the order feed,         *)
(* summary, conversation, podcast.  Each stage starts after the write of   *)
(* the stage before and consumes what that stage produced in memory: the   *)
(* summary written is made from the fresh feed, a conversation written is  *)
(* about the fresh summary, the audio written is the synthesis of the      *)
(* fresh conversation.                                                     *)
(***************************************************************************)
C4_Entries(p) == jsonUnmarshal(loc[p].conversation.tokens)

C4_RefreshReadsNoKey ==
  \A p \in Procs :
    Refreshing(p) =>
      /\ GetsOf(p) = {}
      /\ \A i, j \in DOMAIN ops[p] :
           i < j => StageOfKey(ops[p][i].key) <= StageOfKey(ops[p][j].key)
      /\ calls[p].summarize > 0 => SetsOf(p, "cacheKey") # {}
      /\ calls[p].converse > 0 => OkSetsOf(p, "summaryCacheKey") # {}
      /\ calls[p].synthesize > 0 => OkSetsOf(p, "conversationCacheKey") # {}
      /\ \A i \in DOMAIN ops[p] :
           LET k == ops[p][i].key
               v == ops[p][i].val
           IN
           /\ k = "cacheKey" => v = loc[p].feed
           /\ k = "summaryCacheKey" =>
                /\ v = loc[p].summary
                /\ v.items[1].div.about = parseRSSToMarkdown(loc[p].feed)
           /\ k = "conversationCacheKey" =>
                LET conv == jsonUnmarshal(v.tokens) IN
                /\ conv.ok
                /\ \A e \in DOMAIN conv.Conversation :
                     conv.Conversation[e].Text.about = loc[p].summary
           /\ k = "podcastCacheKey" =>
                /\ C4_Entries(p).ok
                /\ v = Audio([e \in DOMAIN C4_Entries(p).Conversation |->
                               Speech(C4_Entries(p).Conversation[e].Text,
                                      VoiceOf(C4_Entries(p).Conversation[e].Speaker))])

\* a refresh wrote a summary made from its own feed while the feed key, whose
\* write failed, holds another feed
C4_Witness ==
  \E p \in Procs :
    /\ Refreshing(p)
    /\ OkSetsOf(p, "summaryCacheKey") # {}
    /\ OkSetsOf(p, "cacheKey") = {}
    /\ cache["cacheKey"] # Nil /\ cache["cacheKey"] # loc[p].feed
    /\ cache["summaryCacheKey"].items[1].div.about = parseRSSToMarkdown(loc[p].feed)

(***************************************************************************)
(* C5.  With redisConnected false, a refresh ends with the error "redis    *)
(* not connected, cannot update caches" at its first step: no call to any  *)
(* service, no Get, no Set.                                                *)
(***************************************************************************)
C5_RefreshNeedsStore ==
  \A p \in Procs :
    (initDone /\ ~redisConnected /\ Refreshing(p)) =>
      /\ NoUpstreamCall(p)
      /\ ops[p] = << >>
      /\ pc[p] \in {"updateAllCaches", "done"}
      /\ pc[p] = "done" =>
           /\ resp[p].status = 500
           /\ resp[p].body.at = "redis not connected, cannot update caches"

C5_Witness ==
  \E p \in Procs :
    /\ initDone /\ ~redisConnected /\ env.UPDATE_KEY
    /\ kind[p] = "update-cache" /\ pc[p] = "done"
    /\ resp[p].body.at = "redis not connected, cannot update caches"

(***************************************************************************)
(* C6.  A refresh whose write of the feed key failed goes on: the step     *)
(* after the failed write is the summary stage, the summary it writes is   *)
(* made from the feed it holds in memory, and the failed feed write alone  *)
(* never makes the refresh answer an error.                                *)
(***************************************************************************)
C6_FeedWriteFailed(p) ==
  /\ Refreshing(p)
  /\ ops[p] # << >>
  /\ ops[p][1].key = "cacheKey" /\ ops[p][1].res = "error"

C6_FailedFeedWriteGoesOn ==
  \A p \in Procs :
    C6_FeedWriteFailed(p) =>
      /\ Len(ops[p]) = 1 /\ calls[p].summarize = 0 /\ env.HF_API_KEY
           => pc[p] = "summarizeWithLLM"
      /\ \A i \in SetsOf(p, "summaryCacheKey") :
           ops[p][i].val.items[1].div.about = parseRSSToMarkdown(loc[p].feed)
      /\ pc[p] = "done" =>
           \/ resp[p].status = 200
           \/ resp[p].status = 500 /\ StageOfError(resp[p].body.at) \in 2..4

\* the refresh answered Ok although the write of the feed key failed
C6_Witness ==
  \E p \in Procs :
    /\ C6_FeedWriteFailed(p)
    /\ pc[p] = "done" /\ resp[p].status = 200
    /\ cache["cacheKey"] # loc[p].feed

(***************************************************************************)
(* The attempts of the running extractConversation are in tries[p].        *)
(***************************************************************************)
LastTry(p) == tries[p][Len(tries[p])]

\* the attempts counted are those of this extractConversation alone
FirstGeneration(p) == kind[p] # "update-cache" \/ loc[p].round = 1

(***************************************************************************)
(* C7.  When attempt k of extractConversation succeeds after k-1 failures  *)
(* (k <= maxRetries), the attempts made are exactly 1..k in order, with    *)
(* k-1 waits between them, the loop is left (no attempt or wait follows),  *)
(* and the conversation returned is the output of attempt k.               *)
(***************************************************************************)
C7_SuccessAtAttemptK ==
  \A p \in Procs :
    (tries[p] # << >> /\ LastTry(p).ok) =>
      LET k == Len(tries[p]) IN
      /\ k <= maxRetries
      /\ \A i \in 1..k : tries[p][i].attempt = i /\ (tries[p][i].ok <=> i = k)
      /\ pc[p] \notin {"tryGenerateConversation", "backoff"}
      /\ loc[p].conversation = Json(jsonMarshal(LastTry(p).out))
      /\ FirstGeneration(p) => calls[p].converse = k /\ calls[p].waits = k - 1
      /\ (pc[p] = "done" /\ kind[p] = "conversation") =>
           resp[p] = [status |-> 200, body |-> Json(jsonMarshal(LastTry(p).out))]

\* two failures, then a success at the last attempt of the budget
C7_Witness ==
  \E p \in Procs :
    /\ Len(tries[p]) = maxRetries /\ LastTry(p).ok
    /\ ~tries[p][1].ok /\ ~tries[p][2].ok
    /\ calls[p].converse = maxRetries

(***************************************************************************)
(* C8.  When all maxRetries attempts fail, exactly maxRetries attempts     *)
(* were made, there is no wait after the last one (maxRetries - 1 waits),  *)
(* and the operation ends with the error "failed to generate conversation  *)
(* after 3 attempts" wrapping the error of the last attempt.               *)
(***************************************************************************)
C8_BudgetExhausted ==
  \A p \in Procs :
    /\ Len(tries[p]) <= maxRetries
    /\ pc[p] = "backoff" => Len(tries[p]) < maxRetries
    /\ (Len(tries[p]) = maxRetries /\ ~LastTry(p).ok) =>
         /\ \A i \in 1..maxRetries : tries[p][i].attempt = i /\ ~tries[p][i].ok
         /\ pc[p] = "done"
         /\ resp[p].status = 500
         /\ resp[p].body.at = "failed to generate conversation after 3 attempts"
         /\ resp[p].body.cause.attempt = maxRetries
         /\ resp[p].body.cause = loc[p].lastErr
         /\ FirstGeneration(p) /\ env.HF_API_KEY =>
              calls[p].converse = maxRetries /\ calls[p].waits = maxRetries - 1

\* three calls to the service, three failures
C8_Witness ==
  \E p \in Procs :
    /\ Len(tries[p]) = maxRetries /\ ~LastTry(p).ok
    /\ calls[p].converse = maxRetries
    /\ pc[p] = "done" /\ resp[p].body.cause.attempt = maxRetries

(***************************************************************************)
(* C9.  When the context is cancelled during the wait between attempts,    *)
(* the only way out of the wait is the failure "context cancelled during   *)
(* retry wait": no further attempt is made and no call goes to the         *)
(* service.                                                                *)
(***************************************************************************)
C9_CancelledState ==
  \A p \in Procs :
    cancelled[p] =>
      \/ pc[p] = "backoff"
      \/ /\ pc[p] = "done"
         /\ resp[p].status = 500
         /\ resp[p].body.at = "context cancelled during retry wait"
         /\ tries[p] # << >> /\ ~LastTry(p).ok /\ Len(tries[p]) < maxRetries

C9_CancelledStep ==
  \A p \in Procs :
    (pc[p] = "backoff" /\ cancelled[p] /\ pc'[p] # pc[p]) =>
      /\ pc'[p] = "done"
      /\ resp'[p].status = 500
      /\ tries'[p] = tries[p]
      /\ calls'[p].converse = calls[p].converse
      /\ cache' = cache

\* C9: a wait whose context is cancelled ends in the failure, with no further attempt
C9_CancelDuringWait == [](C9_CancelledState) /\ [][C9_CancelledStep]_vars

\* cancelled during the wait after the first failed attempt
C9_Witness ==
  \E p \in Procs :
    /\ cancelled[p] /\ pc[p] = "done"
    /\ resp[p].body.at = "context cancelled during retry wait"
    /\ Len(tries[p]) = 1 /\ calls[p].waits = 1

(***************************************************************************)
(* C10.  A key is written only with the complete output of a stage that    *)
(* succeeded.  Every Set carries a complete value: a conversation that     *)
(* decodes to a non-empty list of entries, an audio with one segment per   *)
(* entry of its conversation, in order.  The same holds of every value a   *)
(* key holds.  A request that ended with a generation error of a stage     *)
(* issued no Set for that stage's key in the failed execution.             *)
(***************************************************************************)
AudioOf(entries) ==
  Audio([i \in DOMAIN entries |-> Speech(entries[i].Text, VoiceOf(entries[i].Speaker))])

\* the audio covers the dialogue it was made from: one segment per line
WholeAudio(v) ==
  /\ v.t = "audio"
  /\ v.segments # << >>
  /\ Len(v.segments) = Len(v.segments[1].input.about.items[1].div.about.headings)
  /\ \A i \in DOMAIN v.segments : v.segments[i].input.line = i

CompleteValue(k, v) ==
  IF k = "cacheKey" THEN v.t = "rss" /\ v.channel = "papers"
  ELSE IF k = "summaryCacheKey" THEN v.t = "rss" /\ v.channel = "summary"
  ELSE IF k = "conversationCacheKey"
       THEN /\ v.t = "json"
            /\ jsonUnmarshal(v.tokens).ok
            /\ jsonUnmarshal(v.tokens).Conversation # << >>
  ELSE WholeAudio(v)

GenerationErrors ==
  {"failed scraping papers",
   "HF_API_KEY environment variable is not set",
   "failed to summarize markdown with LLM",
   "failed to generate conversation after 3 attempts",
   "context cancelled during retry wait",
   "failed to parse conversation",
   "DEEPINFRA_API_KEY environment variable is not set",
   "failed to generate audio podcast"}

KeyOfStage(s) == CHOOSE k \in Keys : StageOfKey(k) = s

\* the error came from the summary request that precedes a conversation or podcast
\* request, or from a stage of a refresh
C10_FailedExecution(p) ==
  LET s == StageOfError(resp[p].body.at)
      k == KeyOfStage(s)
  IN
  IF kind[p] = "update-cache" /\ s = 3
  THEN Cardinality(SetsOf(p, k)) = 2 * (loc[p].round - 1)
  ELSE SetsOf(p, k) = {}

RouteKey(k) ==
  IF k = "feed" THEN "cacheKey"
  ELSE IF k = "summary" THEN "summaryCacheKey"
  ELSE IF k = "conversation" THEN "conversationCacheKey"
  ELSE "podcastCacheKey"

\* the upstream call that generates the artifact of a key was made
GeneratedDirectly(p, k) ==
  IF k = "cacheKey" THEN calls[p].scrape = 1
  ELSE IF k = "summaryCacheKey" THEN calls[p].summarize = 1
  ELSE IF k = "conversationCacheKey" THEN calls[p].converse >= 1
  ELSE calls[p].synthesize >= 1

C11_StoreFailureIsNotSurfaced ==
  \A p \in Procs :
    (redisConnected /\ kind[p] \in OnDemand /\ pc[p] = "done") =>
      /\ UpstreamsWork(p) =>
           /\ resp[p].status = 200
           /\ IsArtifactOf(kind[p], resp[p].body)
           /\ \A i \in GetsOf(p) :
                ops[p][i].res # "hit" => GeneratedDirectly(p, ops[p][i].key)
      /\ resp[p].status # 200 =>
           /\ resp[p].status = 500
           /\ resp[p].body.at \in GenerationErrors
           /\ ~UpstreamsWork(p)

\* a summary request: the summary key holds a value, so the Get that was no hit
\* failed with an error; the Set failed too; the request answered the summary it
\* generated
C11_Witness ==
  \E p \in Procs :
    /\ redisConnected /\ kind[p] = "summary" /\ pc[p] = "done"
    /\ cache["summaryCacheKey"] # Nil
    /\ OkSetsOf(p, "summaryCacheKey") = {}
    /\ \E i \in GetsOf(p) : ops[p][i].key = "summaryCacheKey" /\ ops[p][i].res # "hit"
    /\ \E i \in SetsOf(p, "summaryCacheKey") : ops[p][i].res = "error"
    /\ resp[p] = [status |-> 200, body |-> loc[p].summary]
    /\ calls[p].summarize = 1

(***************************************************************************)
(* C12.  Only the conversation call is ever issued again after a failure.  *)
(* In a request or a refresh scrapePapers and summarizeWithLLM are called  *)
(* at most once, the synthesis service at most once per entry of the       *)
(* conversation, and the first failure of one of them ends the request     *)
(* with the error of that stage.  More than one conversation call in one   *)
(* extractConversation means that an earlier one failed.                   *)
(***************************************************************************)
C12_FailedCallEnds(p, what, at) ==
  what \in calls[p].failed =>
    /\ pc[p] = "done"
    /\ resp[p].status = 500
    /\ resp[p].body.at = at

C12_RetriesOnlyInConversation ==
  \A p \in Procs :
    /\ calls[p].scrape <= 1
    /\ calls[p].summarize <= 1
    /\ calls[p].synthesize > 0 =>
         calls[p].synthesize <= Len(jsonUnmarshal(loc[p].conversation.tokens).Conversation)
    /\ C12_FailedCallEnds(p, "scrape", "failed scraping papers")
    /\ C12_FailedCallEnds(p, "summarize", "failed to summarize markdown with LLM")
    /\ C12_FailedCallEnds(p, "synthesize", "failed to generate audio podcast")
    /\ (calls[p].converse > 1 /\ FirstGeneration(p)) => "converse" \in calls[p].failed
    /\ Len(tries[p]) > 1 => \A i \in 1..(Len(tries[p]) - 1) : ~tries[p][i].ok

\* a podcast request: the conversation call failed and was issued again, every
\* other call was issued once and answered well
C12_Witness ==
  \E p \in Procs :
    /\ kind[p] = "podcast" /\ pc[p] = "done" /\ resp[p].status = 200
    /\ calls[p].scrape = 1 /\ calls[p].summarize = 1
    /\ calls[p].converse = 2 /\ calls[p].failed = {"converse"}
    /\ calls[p].synthesize = Len(jsonUnmarshal(loc[p].conversation.tokens).Conversation)


(***************************************************************************)
(* C13.  generateaudiopodcast on a conversation of N entries makes N       *)
(* synthesis calls.  The i-th call carries the text of the i-th entry and  *)
(* the voice of its speaker (Brian: am_michael, Jenny and anyone else:     *)
(* af_bella), and the audio is the sequence of the N answers in the order  *)
(* of the entries.  While the loop runs the buffer holds the answers for   *)
(* the entries before idx.                                                 *)
(***************************************************************************)
C13_Voice(speaker) == IF speaker = "Brian" THEN "am_michael" ELSE "af_bella"

C13_SegmentOf(entry) == [input |-> entry.Text, voice |-> C13_Voice(entry.Speaker)]

C13_Synthesized(p, n) ==
  LET entries == jsonUnmarshal(loc[p].conversation.tokens).Conversation IN
  /\ n <= Len(entries)
  /\ Len(loc[p].audio) = n
  /\ \A i \in 1..n : loc[p].audio[i] = C13_SegmentOf(entries[i])
  /\ calls[p].synthesize = n + (IF "synthesize" \in calls[p].failed THEN 1 ELSE 0)

C13_OneSynthesisCallPerEntry ==
  \A p \in Procs :
    /\ pc[p] = "synthesize" => C13_Synthesized(p, loc[p].idx - 1)
    /\ pc[p] \in {"setPodcast", "updatePodcastCache"} =>
         C13_Synthesized(p, Len(jsonUnmarshal(loc[p].conversation.tokens).Conversation))
    /\ (pc[p] = "done" /\ calls[p].synthesize > 0) =>
         IF resp[p].status = 500 /\ resp[p].body.at = "failed to generate audio podcast"
         THEN C13_Synthesized(p, calls[p].synthesize - 1)
         ELSE /\ C13_Synthesized(p, Len(jsonUnmarshal(loc[p].conversation.tokens).Conversation))
              /\ kind[p] = "podcast" => resp[p] = [status |-> 200, body |-> Audio(loc[p].audio)]

\* a conversation of two entries, two speakers, two calls: the audio answered has
\* Brian's line in am_michael first, then Jenny's in af_bella
C13_Witness ==
  \E p \in Procs :
    /\ kind[p] = "podcast" /\ pc[p] = "done" /\ resp[p].status = 200
    /\ calls[p].synthesize = 2
    /\ Len(resp[p].body.segments) = 2
    /\ resp[p].body.segments[1].voice = "am_michael"
    /\ resp[p].body.segments[2].voice = "af_bella"
    /\ resp[p].body.segments[1].input.line = 1
    /\ resp[p].body.segments[2].input.line = 2


(***************************************************************************)
(* C14.  A request to /api/update-cache whose X-Update-Key differs from    *)
(* UPDATE_KEY, or that arrives while UPDATE_KEY is not set, is answered    *)
(* 401 by Handler itself: updateAllCaches is not called, no service is     *)
(* called, no key is read or written.                                      *)
(***************************************************************************)
C14_Refused(p) ==
  /\ kind[p] = "update-cache" /\ pc[p] \notin {"idle", "Handler"}
  /\ expectedKey = "" \/ loc[p].secretKey # expectedKey

C14_UnauthorizedRefreshDoesNothing ==
  \A p \in Procs :
    /\ C14_Refused(p) =>
         /\ pc[p] = "done"
         /\ resp[p] = [status |-> 401, body |-> Error("Unauthorized", Nil)]
         /\ NoUpstreamCall(p)
         /\ ops[p] = << >>
         /\ loc[p] = [Loc0 EXCEPT !.secretKey = loc[p].secretKey]
    /\ (kind[p] = "update-cache" /\ pc[p] = "done" /\ resp[p].status = 401) => C14_Refused(p)

C14_RefusedStep ==
  \A p \in Procs :
    (kind[p] = "update-cache" /\ pc[p] = "Handler" /\ pc'[p] = "done") =>
      /\ resp'[p].status = 401
      /\ cache' = cache

\* C14: an unauthorized refresh request is answered 401 in the one step of Handler,
\* which leaves every key as it was
C14_UnauthorizedRefresh == [](C14_UnauthorizedRefreshDoesNothing) /\ [][C14_RefusedStep]_vars

\* UPDATE_KEY is set and the request carries no key; the store is usable and
\* holds a feed, which the refused request left alone
C14_Witness ==
  \E p \in Procs :
    /\ env.UPDATE_KEY /\ redisConnected
    /\ kind[p] = "update-cache" /\ pc[p] = "done"
    /\ loc[p].secretKey = "" /\ resp[p].status = 401
    /\ cache["cacheKey"] # Nil


(***************************************************************************)
(* C15.  A feed made from a listing of n papers has min(n, maxPapers)      *)
(* items, never more than maxPapers, and its i-th item is the i-th paper   *)
(* of the listing.  The same holds of the feed the feed key holds.         *)
(***************************************************************************)
C15_Min(a, b) == IF a < b THEN a ELSE b

C15_FirstPapers(feed, papers) ==
  LET m == C15_Min(Len(papers), maxPapers) IN
  /\ Len(feed.items) = m
  /\ \A i \in 1..m :
       feed.items[i].Title = papers[i].Title /\ feed.items[i].Link = papers[i].URL

C15_FeedIsFirstPapersInOrder ==
  /\ cache["cacheKey"] # Nil => Len(cache["cacheKey"].items) <= maxPapers
  /\ \A p \in Procs :
       (calls[p].scrape = 1 /\ "scrape" \notin calls[p].failed) =>
         /\ Len(loc[p].feed.items) <= maxPapers
         /\ C15_FirstPapers(loc[p].feed, loc[p].papers)
         /\ (pc[p] = "done" /\ kind[p] = "feed") =>
              resp[p] = [status |-> 200, body |-> loc[p].feed]

\* a listing of more than maxPapers papers that does not start with paper 1: the
\* feed answered has maxPapers items and starts as the listing does
C15_Witness ==
  \E p \in Procs :
    /\ kind[p] = "feed" /\ pc[p] = "done" /\ resp[p].status = 200
    /\ Len(loc[p].papers) > maxPapers
    /\ loc[p].papers[1].Title # 1
    /\ Len(resp[p].body.items) = maxPapers
    /\ resp[p].body.items[1].Title = loc[p].papers[1].Title


(***************************************************************************)
(* C16.  An attempt whose response text is a valid, non-empty conversation *)
(* object between two pieces of prose succeeds with that conversation.     *)
(* The code does not do this for every such text: the regular expression   *)
(* of tryGenerateConversation follows braces one level deep only, so with  *)
(* a brace pair inside an utterance it matches an entry object instead of  *)
(* the conversation object, and the attempt fails with "parsed JSON        *)
(* contains no conversation entries".                                      *)
(***************************************************************************)
\* the conversations the response text of p embeds between two pieces of prose
C16_Embedded(p) ==
  { conv \in { Dialogue(loc[p].summary, take) : take \in Takes } \cup
             { BracedDialogue(loc[p].summary), CrowdedDialogue(loc[p].summary) } :
      \E pre \in Prose, post \in Prose :
        loc[p].content.tokens = pre \o jsonMarshal(conv) \o post }

C16_AttemptMade(p) == tries[p] # << >> /\ loc[p].content # Nil

C16_EmbeddedConversationDecodes ==
  \A p \in Procs :
    C16_AttemptMade(p) =>
      \A conv \in C16_Embedded(p) : LastTry(p).ok /\ LastTry(p).out = conv


(***************************************************************************)
(* C17.  Every conversation that an attempt returns, and every one the     *)
(* conversation key holds, is non-empty and has at most two distinct       *)
(* speakers.  The code checks the first and not the second: the entries    *)
(* are taken as the service sent them, whoever speaks.                     *)
(***************************************************************************)
C17_SpeakersOf(entries) == { entries[i].Speaker : i \in DOMAIN entries }

C17_TwoSpeakers(entries) ==
  entries # << >> /\ Cardinality(C17_SpeakersOf(entries)) <= 2

C17_AtMostTwoSpeakers ==
  /\ cache["conversationCacheKey"] # Nil =>
       C17_TwoSpeakers(jsonUnmarshal(cache["conversationCacheKey"].tokens).Conversation)
  /\ \A p \in Procs :
       /\ (tries[p] # << >> /\ LastTry(p).ok) => C17_TwoSpeakers(LastTry(p).out)
       /\ (kind[p] = "conversation" /\ pc[p] = "done" /\ resp[p].status = 200) =>
            C17_TwoSpeakers(jsonUnmarshal(resp[p].body.tokens).Conversation)


(***************************************************************************)
(* C18.  Requests that run at once are not coordinated.  Whatever the      *)
(* other handler does, a feed or summary request whose Get of its key was  *)
(* no hit calls the upstream service itself, writes the artifact it made   *)
(* to the key and answers that artifact.  Every Set that succeeds replaces *)
(* the value of its key, so the key holds the value of the write applied   *)
(* last.  (The history does not tell a miss from a failed Get; the code    *)
(* treats them alike.)                                                     *)
(***************************************************************************)
C18_NoHit(p, k) == \E i \in GetsOf(p) : ops[p][i].key = k /\ ops[p][i].res # "hit"

C18_EachRegenerates ==
  \A p \in Procs :
    (kind[p] \in {"feed", "summary"} /\ redisConnected /\ pc[p] = "done"
       /\ C18_NoHit(p, RouteKey(kind[p])) /\ UpstreamsWork(p)) =>
      /\ GeneratedDirectly(p, RouteKey(kind[p]))
      /\ resp[p] = [status |-> 200, body |-> FreshOf(p, RouteKey(kind[p]))]
      /\ \E i \in SetsOf(p, RouteKey(kind[p])) : ops[p][i].val = resp[p].body

C18_LastWriterWins ==
  /\ \A p \in Procs :
       (Len(ops'[p]) = Len(ops[p]) + 1 /\ ops'[p][Len(ops'[p])].op = "Set"
          /\ ops'[p][Len(ops'[p])].res = "ok") =>
         cache'[ops'[p][Len(ops'[p])].key] = ops'[p][Len(ops'[p])].val
  /\ \A k \in Keys :
       cache'[k] # cache[k] =>
         \E p \in Procs :
           /\ Len(ops'[p]) = Len(ops[p]) + 1
           /\ ops'[p][Len(ops'[p])] = [op |-> "Set", key |-> k, res |-> "ok", val |-> cache'[k]]

\* C18: each request that found no value regenerates, answers and writes its own
\* artifact, and the last write applied is the value of the key
C18_UncoordinatedMisses == [](C18_EachRegenerates) /\ [][C18_LastWriterWins]_vars

\* two feed requests in flight found the feed key absent, each called the content
\* source, they hold different feeds and each is about to write its own
C18_Witness ==
  /\ cache["cacheKey"] = Nil
  /\ \A p \in Procs :
       /\ kind[p] = "feed" /\ pc[p] = "setFeed"
       /\ C18_NoHit(p, "cacheKey")
       /\ calls[p].scrape = 1
  /\ loc["r1"].feed # loc["r2"].feed


(***************************************************************************)
(* C19.  Round trip of the feed and summary keys.  A feed or summary       *)
(* request that did not hit and whose Set succeeded answered B, wrote B,   *)
(* and leaves B in the key.  The arrival of the next request leaves the    *)
(* key as it is, and a request that hits its key answers the value of the  *)
(* key, whole, with no call to any service and no write.                   *)
(***************************************************************************)
C19_Routes == {"feed", "summary"}

C19_WroteWhatItAnswered ==
  \A p \in Procs :
    (kind[p] \in C19_Routes /\ pc[p] = "done" /\ resp[p].status = 200
       /\ OkSetsOf(p, RouteKey(kind[p])) # {}) =>
      /\ C18_NoHit(p, RouteKey(kind[p]))
      /\ Cardinality(SetsOf(p, RouteKey(kind[p]))) = 1
      /\ ops[p][LastOf(OkSetsOf(p, RouteKey(kind[p])))].val = resp[p].body
      /\ cache[RouteKey(kind[p])] = resp[p].body

C19_HitAnswersTheKey ==
  \A p \in Procs :
    (kind[p] \in C19_Routes /\ pc[p] = "done" /\ ops[p] # << >>
       /\ ops[p][1] = [op |-> "Get", key |-> RouteKey(kind[p]), res |-> "hit", val |-> Nil]) =>
      /\ Len(ops[p]) = 1
      /\ NoUpstreamCall(p)
      /\ resp[p] = [status |-> 200, body |-> cache[RouteKey(kind[p])]]

C19_NextRequestStep ==
  \A p \in Procs :
    /\ (pc[p] = "done" /\ pc'[p] # "done") => cache' = cache
    /\ (kind[p] \in C19_Routes /\ pc[p] \in {"Handler", "getCachedFeed", "getCachedSummary"}
          /\ pc'[p] = "done" /\ resp'[p].status = 200) => cache' = cache

\* C19: what a missing request answered and wrote is what the next request, hitting,
\* answers
C19_RoundTrip ==
  [](C19_WroteWhatItAnswered /\ C19_HitAnswersTheKey) /\ [][C19_NextRequestStep]_vars

\* a summary request answered from the key alone
C19_Witness ==
  \E p \in Procs :
    /\ kind[p] = "summary" /\ pc[p] = "done"
    /\ ops[p] = << [op |-> "Get", key |-> "summaryCacheKey", res |-> "hit", val |-> Nil] >>
    /\ resp[p] = [status |-> 200, body |-> cache["summaryCacheKey"]]
    /\ NoUpstreamCall(p)


(***************************************************************************)
(* C20.  A summary request that finds nothing in the store (no Get of it   *)
(* is a hit) and whose upstream calls are answered well calls the content  *)
(* source once and the text-generation service once.  For a listing of n   *)
(* papers, n <= maxPapers, the feed has n items, and the markdown of the   *)
(* prompt has the titles of the n items, in the order of the feed.  (The   *)
(* summary of the model is about its prompt: that is how the prompt is     *)
(* read here.)                                                             *)
(***************************************************************************)
C20_Cold(p) ==
  /\ kind[p] = "summary" /\ pc[p] = "done"
  /\ \A i \in GetsOf(p) : ops[p][i].res # "hit"
  /\ UpstreamsWork(p)

C20_Prompt(p) == loc[p].summary.items[1].div.about

C20_ColdSummary ==
  \A p \in Procs :
    C20_Cold(p) =>
      LET n == Len(loc[p].papers) IN
      /\ resp[p] = [status |-> 200, body |-> loc[p].summary]
      /\ calls[p].scrape = 1 /\ calls[p].summarize = 1
      /\ n <= maxPapers
      /\ Len(loc[p].feed.items) = n
      /\ \A i \in 1..n : loc[p].feed.items[i].Title = loc[p].papers[i].Title
      /\ C20_Prompt(p).t = "markdown"
      /\ Len(C20_Prompt(p).headings) = n
      /\ \A i \in 1..n : C20_Prompt(p).headings[i] = loc[p].feed.items[i].Title

\* two papers: a feed of two items, one summary call whose prompt has both titles
C20_Witness ==
  \E p \in Procs :
    /\ C20_Cold(p)
    /\ cache["cacheKey"] = Nil /\ cache["summaryCacheKey"] = Nil
    /\ Len(loc[p].papers) = 2
    /\ Len(loc[p].feed.items) = 2
    /\ calls[p].scrape = 1 /\ calls[p].summarize = 1
    /\ C20_Prompt(p).headings = <<1, 2>>


(***************************************************************************)
(* C21.  An on-demand request answers either 200 with the artifact of its  *)
(* route or 500 with an error and no artifact.  It answers 500 whenever a  *)
(* stage it ran returned an error (a failed call to the content source,    *)
(* the summary call or a synthesis call, or an extractConversation that    *)
(* gave up), also when that stage had produced part of its output.         *)
(***************************************************************************)
C21_StageFailed(p) ==
  \/ calls[p].failed \cap {"scrape", "summarize", "synthesize"} # {}
  \/ tries[p] # << >> /\ ~LastTry(p).ok /\ pc[p] = "done"

C21_ErrorsBecomeFailures ==
  \A p \in Procs :
    (kind[p] \in OnDemand /\ pc[p] = "done") =>
      /\ resp[p].status \in {200, 500}
      /\ resp[p].status = 500 <=> resp[p].body.t = "error"
      /\ resp[p].status = 200 <=> IsArtifactOf(kind[p], resp[p].body)
      /\ C21_StageFailed(p) => resp[p].status = 500
      /\ resp[p].status = 500 => (C21_StageFailed(p) \/ ~UpstreamsWork(p))

\* a podcast request whose second synthesis call failed: audio in the buffer,
\* an error in the answer
C21_Witness ==
  \E p \in Procs :
    /\ kind[p] = "podcast" /\ pc[p] = "done"
    /\ loc[p].audio # << >> /\ "synthesize" \in calls[p].failed
    /\ resp[p].status = 500 /\ resp[p].body.t = "error"


(***************************************************************************)
(* C22.  A conversation request whose Get of the conversation key is a hit *)
(* has made no call to the content source or the text-generation service  *)
(* and answers the cached conversation, whatever the feed and summary keys *)
(* hold.                                                                   *)
(* The code does not do this: Handler calls getCachedSummary before        *)
(* getcachedconversation, and a summary miss regenerates the summary.      *)
(***************************************************************************)
C22_ConversationHitCallsNoUpstream ==
  \A p \in Procs :
    (kind[p] = "conversation" /\
     \E i \in GetsOf(p) : ops[p][i].key = "conversationCacheKey" /\ ops[p][i].res = "hit") =>
      /\ calls[p].scrape = 0 /\ calls[p].summarize = 0 /\ calls[p].converse = 0
      /\ pc[p] = "done"
      /\ resp[p] = [status |-> 200, body |-> cache["conversationCacheKey"]]

(***************************************************************************)
(* A request and the next request for the same artifact, one after the    *)
(* other, with a store whose Get answers: a Get of a key the store holds   *)
(* is a hit.                                                               *)
(***************************************************************************)
GetAnswers(p, k) ==
  (redisConnected /\ cache[k] # Nil) => ops'[p][Len(ops'[p])].res = "hit"

NextAgain ==
  \/ pc["r1"] = "idle" /\ \E k \in OnDemand : Start("r1", k)
  \/ pc["r1"] = "done" /\ pc["r2"] = "idle" /\ Start("r2", kind["r1"])
  \/ \E p \in Procs :
       \/ HandlerEntry(p)
       \/ GetCachedFeed(p) /\ GetAnswers(p, "cacheKey")
       \/ GenerateFeedDirect(p)
       \/ SetFeed(p)
       \/ GetCachedSummary(p) /\ GetAnswers(p, "summaryCacheKey")
       \/ SummarizeWithLLM(p)
       \/ SetSummary(p)
       \/ GetCachedConversation(p) /\ GetAnswers(p, "conversationCacheKey")
       \/ TryGenerateConversation(p)
       \/ Cancel(p)
       \/ BackoffElapsed(p)
       \/ BackoffCancelled(p)
       \/ SetConversation(p)
       \/ GetCachedPodcast(p) /\ GetAnswers(p, "podcastCacheKey")
       \/ GenerateAudioPodcast(p)
       \/ Synthesize(p)
       \/ SetPodcast(p)

SpecAgain == Init /\ [][NextAgain]_vars

(***************************************************************************)
(* C23.  Redis connected, every Set answered OK.  When an on-demand        *)
(* request has failed, each stage it completed itself (feed scraped,       *)
(* summary generated, conversation generated) has its value under its key, *)
(* and the next request for the same artifact calls no upstream service of *)
(* a stage the failed request completed or found cached: it calls only     *)
(* the services of the failed stage and of the stages after it.            *)
(***************************************************************************)
C23_AllSetsOk(p) == \A i \in DOMAIN ops[p] : ops[p][i].op = "Set" => ops[p][i].res = "ok"

C23_Has(p, k) ==
  \/ OkSetsOf(p, k) # {}
  \/ \E i \in GetsOf(p) : ops[p][i].key = k /\ ops[p][i].res = "hit"

C23_Scraped(p) == calls[p].scrape > 0 /\ "scrape" \notin calls[p].failed
C23_Summarized(p) == calls[p].summarize > 0 /\ "summarize" \notin calls[p].failed
C23_Conversed(p) == calls[p].converse > 0 /\ loc[p].conversation # Nil

C23_Failed(p) ==
  /\ kind[p] \in OnDemand /\ pc[p] = "done" /\ resp[p].status = 500
  /\ redisConnected /\ C23_AllSetsOk(p)

C23_FailedRequestLeavesEarlierStages ==
  C23_Failed("r1") =>
    /\ C23_Scraped("r1") => cache["cacheKey"] = loc["r1"].feed
    /\ C23_Summarized("r1") => cache["summaryCacheKey"] = loc["r1"].summary
    /\ C23_Conversed("r1") => cache["conversationCacheKey"] = loc["r1"].conversation
    /\ (pc["r2"] # "idle" /\ C23_AllSetsOk("r2")) =>
         /\ kind["r2"] = kind["r1"]
         /\ (C23_Has("r1", "cacheKey") \/ C23_Has("r1", "summaryCacheKey"))
              => calls["r2"].scrape = 0
         /\ C23_Has("r1", "summaryCacheKey") => calls["r2"].summarize = 0
         /\ C23_Has("r1", "conversationCacheKey") => calls["r2"].converse = 0

C23_Witness ==
  /\ C23_Failed("r1") /\ kind["r1"] = "podcast"
  /\ C23_Scraped("r1") /\ C23_Summarized("r1") /\ C23_Conversed("r1")
  /\ "synthesize" \in calls["r1"].failed
  /\ pc["r2"] = "done" /\ resp["r2"].status = 200
  /\ calls["r2"].scrape = 0 /\ calls["r2"].summarize = 0 /\ calls["r2"].converse = 0
  /\ calls["r2"].synthesize > 0

(***************************************************************************)
(* C24.  redisConnected is computed once: it and initDone change only in   *)
(* the step of the first request to leave the entry of Handler, when       *)
(* initRedis has not run yet; a request that is past the entry of Handler, *)
(* where the flag is read, finds initRedis done; before that the flag is   *)
(* false, and once initRedis is done the flag keeps its value, with two    *)
(* handlers running at once.                                               *)
(***************************************************************************)
C24_PastEntry(p) == pc[p] \notin {"idle", "Handler"}

C24_FlagComputedOnce ==
  /\ [](/\ (\E p \in Procs : C24_PastEntry(p)) => initDone
        /\ ~initDone => ~redisConnected
        /\ redisConnected => env.KV_URL)
  /\ [][/\ initDone => (initDone' /\ redisConnected' = redisConnected)
        /\ (~initDone /\ initDone') =>
             \E p \in Procs : pc[p] = "Handler" /\ C24_PastEntry(p)'
        /\ ~initDone' => ~redisConnected']_vars

C24_Witness ==
  /\ initDone /\ redisConnected
  /\ pc["r1"] = "Handler" /\ ops["r2"] # << >> /\ pc["r2"] = "done"
  /\ resp["r2"].status = 200

(***************************************************************************)
(* The summary route alone, with every text of up to MaxText pieces as the *)
(* answer of the text-generation service.                                  *)
(***************************************************************************)
ThinkResults(p, markdown) == {Nil} \cup ThinkContents(markdown)

NextThink ==
  \E p \in SeqProcs :
    \/ Start(p, "summary")
    \/ HandlerEntry(p)
    \/ GetCachedSummary(p)
    \/ GetCachedFeed(p)
    \/ GenerateFeedDirect(p)
    \/ SetFeed(p)
    \/ SummarizeWithLLMFrom(p, ThinkResults(p, parseRSSToMarkdown(SummaryInput(p))))
    \/ SetSummary(p)

SpecThink == Init /\ [][NextThink]_vars

(***************************************************************************)
(* C25.  When the text generated for the summary contains a reasoning      *)
(* block, "<think>" and later "</think>", the body of the summary is       *)
(* exactly the text after the closing delimiter of such a block; a text    *)
(* without such a block is the body unchanged.  The code does not do       *)
(* this: it cuts at the last "</think>" whenever "<think>" occurs anywhere *)
(* in the text, before it or after it, and it trims what it keeps.         *)
(***************************************************************************)
C25_Blocks(text) ==
  { j \in DOMAIN text : text[j] = CloseThink /\ \E i \in 1..(j - 1) : text[i] = OpenThink }

C25_Summarized(p) ==
  /\ kind[p] = "summary" /\ calls[p].summarize > 0 /\ "summarize" \notin calls[p].failed
  /\ loc[p].content # Nil /\ loc[p].summary # Nil

C25_BodyFollowsClosingDelimiter ==
  \A p \in Procs :
    C25_Summarized(p) =>
      LET text == loc[p].content.tokens
          body == loc[p].summary.items[1].div.text
      IN IF C25_Blocks(text) = {}
         THEN body = text
         ELSE \E j \in C25_Blocks(text) : body = SubSeq(text, j + 1, Len(text))

(***************************************************************************)
(* C26.  A refresh is not aborted by the cancellation of the request that  *)
(* triggered it: a refresh whose triggering request was cancelled while it *)
(* was in progress does not end with the failure of a cancelled context.   *)
(* The code does not do this: Handler hands the context of the request to  *)
(* updateAllCaches, and the wait of extractConversation ends on its Done.  *)
(***************************************************************************)
C26_CancelDoesNotAbortRefresh ==
  \A p \in Procs :
    (kind[p] = "update-cache" /\ cancelled[p] /\ pc[p] = "done") =>
      ~(resp[p].status = 500 /\ resp[p].body.at = "context cancelled during retry wait")

(***************************************************************************)
(* C27.  One refresh runs the conversation stage once: it makes at most    *)
(* maxRetries calls for a conversation, it writes the conversation key at  *)
(* most once, and when it ends with an error of the conversation stage it  *)
(* has written nothing under the conversation key.  The code does not do   *)
(* this: updateAllCaches calls generatePodcastConversation twice, and each *)
(* generation is written by generatePodcastConversation and again by       *)
(* updateAllCaches.                                                        *)
(***************************************************************************)
C27_ConversationStageRunsOnce ==
  \A p \in Procs :
    Refreshing(p) =>
      /\ calls[p].converse <= maxRetries
      /\ Cardinality(SetsOf(p, "conversationCacheKey")) <= 1
      /\ RefreshFailedIn(p, 3) => OkSetsOf(p, "conversationCacheKey") = {}

(***************************************************************************)
(* C28.  What a request may write.  A feed request issues Sets of the feed *)
(* key only, a summary request of the feed and summary keys only, a        *)
(* conversation request none of the podcast key; a request that had a hit  *)
(* on a key issues no Set of it.  A step changes a key only by the Set a   *)
(* request logs in that step, to the value of that Set, and no step makes  *)
(* a key absent.                                                           *)
(***************************************************************************)
C28_MayWrite(k) ==
  IF k = "feed" THEN {"cacheKey"}
  ELSE IF k = "summary" THEN {"cacheKey", "summaryCacheKey"}
  ELSE IF k = "conversation" THEN {"cacheKey", "summaryCacheKey", "conversationCacheKey"}
  ELSE Keys

C28_HistoryInFrame ==
  \A p \in Procs : \A i \in DOMAIN ops[p] :
    ops[p][i].op = "Set" =>
      /\ ops[p][i].key \in C28_MayWrite(kind[p])
      /\ \A j \in GetsOf(p) : ~(ops[p][j].key = ops[p][i].key /\ ops[p][j].res = "hit")

C28_StepInFrame ==
  \A k \in Keys :
    /\ cache[k] # Nil => cache'[k] # Nil
    /\ cache'[k] # cache[k] =>
         \E p \in Procs :
           /\ Len(ops'[p]) = Len(ops[p]) + 1
           /\ ops'[p][Len(ops'[p])] = [op |-> "Set", key |-> k, res |-> "ok", val |-> cache'[k]]
           /\ k \in C28_MayWrite(kind[p])

C28_FrameOfARequest == [](C28_HistoryInFrame) /\ [][C28_StepInFrame]_vars

\* a conversation request that hit the summary key and wrote the conversation key
C28_Witness ==
  \E p \in Procs :
    /\ kind[p] = "conversation" /\ pc[p] = "done" /\ resp[p].status = 200
    /\ \E j \in GetsOf(p) : ops[p][j].key = "summaryCacheKey" /\ ops[p][j].res = "hit"
    /\ OkSetsOf(p, "conversationCacheKey") # {}
    /\ cache["podcastCacheKey"] # Nil

(***************************************************************************)
(* C29.  When a refresh has answered Ok, with no other request running,    *)
(* the four keys hold one chain: the podcast is the audio of the entries   *)
(* of the cached conversation, each entry of the cached conversation is    *)
(* about the cached summary, the cached summary is made from the feed of   *)
(* this refresh, and that feed is the cached feed when its Set succeeded.  *)
(***************************************************************************)
C29_RefreshedOk(p) == kind[p] = "update-cache" /\ pc[p] = "done" /\ resp[p].status = 200

C29_OneDerivationChain ==
  \A p \in Procs :
    C29_RefreshedOk(p) =>
      /\ \A k \in Keys \ {"cacheKey"} : cache[k] # Nil
      /\ LET conv == jsonUnmarshal(cache["conversationCacheKey"].tokens) IN
         /\ conv.ok /\ conv.Conversation # << >>
         /\ cache["podcastCacheKey"] = AudioOf(conv.Conversation)
         /\ \A e \in DOMAIN conv.Conversation :
              conv.Conversation[e].Text.about = cache["summaryCacheKey"]
      /\ cache["summaryCacheKey"].items[1].div.about = parseRSSToMarkdown(loc[p].feed)
      /\ OkSetsOf(p, "cacheKey") # {} => cache["cacheKey"] = loc[p].feed

\* a refresh ended Ok whose two generations of the conversation differ and whose
\* feed was written
C29_Witness ==
  \E p \in Procs :
    /\ C29_RefreshedOk(p)
    /\ OkSetsOf(p, "cacheKey") # {}
    /\ \E i \in OkSetsOf(p, "conversationCacheKey") :
         ops[p][i].val # cache["conversationCacheKey"]

(***************************************************************************)
(* A podcast request and a refresh at once, in a deployment with every     *)
(* variable of the environment set.  The refresh arrives when the podcast  *)
(* request holds its audio and has not written it yet; from there the      *)
(* steps of the two handlers interleave.                                   *)
(***************************************************************************)
FullyConfigured ==
  env.KV_URL /\ env.HF_API_KEY /\ env.DEEPINFRA_API_KEY /\ env.UPDATE_KEY

NextRace ==
  \/ pc["r1"] = "idle" /\ FullyConfigured /\ Start("r1", "podcast")
  \/ pc["r2"] = "idle" /\ pc["r1"] = "setPodcast" /\ Start("r2", "update-cache")
  \/ \E p \in Procs : Step(p)

SpecRace == Init /\ [][NextRace]_vars

(***************************************************************************)
(* C30.  In a state with no request and no refresh in flight, all of them  *)
(* answered well, when the podcast and conversation keys both hold a value *)
(* the podcast is the audio of the entries of the cached conversation.     *)
(* The code does not do this: a podcast request that has read the          *)
(* conversation writes its audio after a refresh has replaced the          *)
(* conversation and the podcast.                                           *)
(***************************************************************************)
C30_Quiescent ==
  \A p \in Procs : pc[p] = "idle" \/ (pc[p] = "done" /\ resp[p].status = 200)

C30_PodcastIsOfCachedConversation ==
  (C30_Quiescent /\ cache["podcastCacheKey"] # Nil /\ cache["conversationCacheKey"] # Nil) =>
    LET conv == jsonUnmarshal(cache["conversationCacheKey"].tokens) IN
    /\ conv.ok
    /\ cache["podcastCacheKey"] = AudioOf(conv.Conversation)
=============================================================================
